---------------------------- MODULE Spec2Model ----------------------------
(***************************************************************************)
(* Model of the directive-based multi-agent core of hevo_assistant:        *)
(* CoordinatorAgent (LLM text -> ActionDirective), ExecutorAgent           *)
(* (validate_directive / execute), ActionExecutor.execute (dispatch to     *)
(* the capability layer) and AgentOrchestrator.process.                    *)
(*                                                                         *)
(* Conventions.  A Python str is a sequence of fragments; a fragment is    *)
(* either one character or one opaque literal of the source (f-strings     *)
(* are concatenations).  Texts that the code searches for substrings are   *)
(* spelled character by character.  Python None is NoneText for an         *)
(* Optional[str], NoneStr for an optional name and NoneParams for an       *)
(* Optional[dict].  A call either returns or raises: Ret(v) / Raise(c,m).  *)
(***************************************************************************)
EXTENDS Integers, Sequences, FiniteSets, TLC

VARIABLES
    pc,          \* position of the running call
    response,    \* outcome of the Coordinator's llm.chat call of this turn
    directive,   \* the ActionDirective in hand
    validation,  \* what validate_directive returned for it
    outcome,     \* behaviour of the capability-layer handler that was dispatched
    result,      \* what ExecutorAgent.execute returned (or raised)
    reply,       \* what AgentOrchestrator.process returned
    executeCalls, \* ExecutorAgent.execute invocations during this turn
    arg,         \* arguments of the library function being called
    ret,         \* what that function returned (or raised)
    user_input,  \* the line read by the chat loop's prompt
    history,     \* conversation_history of the chat session
    appended,    \* every entry the chat loop ever appended, in order
    pipelines_cache,    \* AgentOrchestrator._pipelines_cache
    destinations_cache, \* AgentOrchestrator._destinations_cache
    calls,       \* the calls made out of the process so far, in order
    fetches,     \* successful fetches of each name list since the last clear_cache()
    requests,    \* RateLimiter.requests
    now          \* the clock, in seconds

vars == <<pc, response, directive, validation, outcome, result, reply, executeCalls,
          arg, ret, user_input, history, appended, pipelines_cache,
          destinations_cache, calls, fetches, requests, now>>

\* the orchestrator's caches, the calls going out and the rate limiter
world == <<pipelines_cache, destinations_cache, calls, fetches, requests, now>>

\* the state of the library calls and of the chat session, and the world
session == <<arg, ret, user_input, history, appended, world>>

----------------------------------------------------------------------------
(* Bounds *)

MaxFrags == 2     \* fragments per capability-layer message
MaxParams == 2    \* keys per params mapping

----------------------------------------------------------------------------
(* Python values *)

NoneText == <<"<None>">>
NoneStr == "<None>"
NoneList == <<"<None>">>
EmptyMap == [k \in {} |-> ""]
NoneParams == [k \in {"<None>"} |-> ""]

Truthy(t) == t # NoneText /\ t # <<>>
TruthyStr(s) == s # NoneStr /\ s # ""

Ret(v) == [raised |-> FALSE, val |-> v]
Raise(c, m) == [raised |-> TRUE, cls |-> c, msg |-> m]

Min(a, b) == IF a < b THEN a ELSE b

UpperChars == <<"A", "B", "C", "D", "E", "F", "G", "H", "I", "J", "K", "L", "M",
                "N", "O", "P", "Q", "R", "S", "T", "U", "V", "W", "X", "Y", "Z">>
LowerChars == <<"a", "b", "c", "d", "e", "f", "g", "h", "i", "j", "k", "l", "m",
                "n", "o", "p", "q", "r", "s", "t", "u", "v", "w", "x", "y", "z">>

\* str.lower(), one fragment at a time
LowerChar(c) ==
    IF \E i \in 1..26 : UpperChars[i] = c
    THEN LowerChars[CHOOSE i \in 1..26 : UpperChars[i] = c]
    ELSE c

lower(t) == [i \in 1..Len(t) |-> LowerChar(t[i])]

\* `sub in t`
Contains(t, sub) ==
    \E i \in 0..(Len(t) - Len(sub)) :
        \A j \in 1..Len(sub) : t[i + j] = sub[j]

----------------------------------------------------------------------------
(* agent/actions.py: the dispatch table, and domain/capabilities.py: the   *)
(* Capability Registry                                                     *)

REGISTERED_ACTIONS ==
    {"list_pipelines", "get_pipeline", "create_pipeline", "delete_pipeline",
     "pause_pipeline", "resume_pipeline", "run_pipeline",
     "update_pipeline_priority", "get_pipeline_schedule",
     "update_pipeline_schedule", "get_pipeline_position",
     "update_pipeline_position", "update_pipeline_source",
     "list_objects", "get_object", "pause_object", "resume_object",
     "skip_object", "include_object", "restart_object", "get_object_position",
     "update_object_position", "get_object_stats", "get_object_query_mode",
     "update_object_query_mode",
     "list_destinations", "get_destination", "create_destination",
     "update_destination", "get_destination_stats", "load_destination",
     "list_models", "get_model", "create_model", "update_model",
     "delete_model", "run_model", "pause_model", "resume_model", "reset_model",
     "update_model_schedule",
     "list_workflows", "get_workflow", "run_workflow",
     "get_transformation", "update_transformation", "test_transformation",
     "get_transformation_sample",
     "list_event_types", "skip_event_type", "include_event_type",
     "update_auto_mapping", "get_schema_mapping", "update_schema_mapping",
     "list_users", "invite_user", "update_user_role", "delete_user",
     "list_oauth_accounts", "get_oauth_account", "remove_oauth_account"}

CAPABILITIES ==
    {"list_pipelines", "get_pipeline", "create_pipeline", "delete_pipeline",
     "pause_pipeline", "resume_pipeline", "run_pipeline",
     "update_pipeline_schedule", "update_pipeline_priority",
     "get_pipeline_schedule",
     "list_objects", "pause_object", "resume_object", "skip_object",
     "include_object", "get_object", "restart_object",
     "get_transformation", "update_transformation", "test_transformation",
     "get_schema_mapping", "update_schema_mapping", "update_auto_mapping",
     "list_event_types", "skip_event_type", "include_event_type",
     "list_destinations", "get_destination", "create_destination",
     "get_destination_stats", "load_destination",
     "list_models", "get_model", "create_model", "update_model",
     "delete_model", "pause_model", "resume_model", "run_model", "reset_model",
     "list_workflows", "get_workflow", "run_workflow",
     "list_users", "invite_user", "update_user_role", "delete_user",
     "list_oauth_accounts", "get_oauth_account", "remove_oauth_account"}

----------------------------------------------------------------------------
(* agents/schemas.py *)

DirectiveType == {"execute", "clarify", "unsupported", "info_only"}

\* the ActionDirective dataclass
ActionDirective(t, a, p, c, q, m, i) ==
    [directive_type |-> t, action |-> a, params |-> p, context |-> c,
     question |-> q, missing_params |-> m, info_response |-> i]

Directive_clarify(question, missing_params) ==
    ActionDirective("clarify", NoneStr, EmptyMap, NoneText, question,
                    missing_params, NoneText)

Directive_unsupported(message) ==
    ActionDirective("unsupported", NoneStr, EmptyMap, NoneText, NoneText,
                    <<>>, message)

Directive_info_only(resp) ==
    ActionDirective("info_only", NoneStr, EmptyMap, NoneText, NoneText,
                    <<>>, resp)

\* the AgentActionResult dataclass and its two factories
success_result(action, res, message, suggestions) ==
    [success |-> TRUE, action_taken |-> action, result |-> res,
     message |-> message, error |-> EmptyMap, suggestions |-> suggestions]

error_result(action, error_code, error_message) ==
    [success |-> FALSE, action_taken |-> action, result |-> EmptyMap,
     message |-> NoneText,
     error |-> [code |-> error_code, message |-> error_message],
     suggestions |-> <<>>]

----------------------------------------------------------------------------
(* The capability layer as ActionExecutor.execute sees it: a handler of    *)
(* the dispatch table is called with params and either returns an          *)
(* ActionResult or raises.  What it does depends on the remote API and is  *)
(* an input.                                                               *)

ActionResult(success, message, data) ==
    [success |-> success, message |-> message, data |-> data]

\* ActionResult.data by shape: None, a list, a dict, or a record object
Data(shape, items, fields) == [shape |-> shape, items |-> items, fields |-> fields]
NoData == Data("none", <<>>, EmptyMap)

\* bool(result.data)
TruthyData(d) ==
    CASE d.shape = "none" -> FALSE
      [] d.shape = "list" -> Len(d.items) > 0
      [] d.shape = "dict" -> DOMAIN d.fields # {}
      [] OTHER -> TRUE

\* class APIError(Exception); every other error class used here is an
\* Exception too
IsInstance(cls, base) ==
    \/ cls = base
    \/ base = "Exception" /\ cls \in {"APIError", "ValueError", "ConnectionError"}

C_NOT_FOUND == <<"n", "o", "t", " ", "f", "o", "u", "n", "d">>
C_PERMISSION == <<"p", "e", "r", "m", "i", "s", "s", "i", "o", "n">>
C_ALREADY == <<"a", "l", "r", "e", "a", "d", "y">>
P_API_ERROR == <<"A", "P", "I", " ", "e", "r", "r", "o", "r", ":", " ">>
P_ERROR_EXECUTING ==
    <<"E", "r", "r", "o", "r", " ", "e", "x", "e", "c", "u", "t", "i", "n", "g",
      " ", "a", "c", "t", "i", "o", "n", ":", " ">>

\* handler(params) of actions.py:251, with the handler's behaviour `out`
handler(params, out) ==
    IF out.kind = "raise"
    THEN Raise(out.cls, out.message)
    ELSE Ret(ActionResult(out.success, out.message, out.data))

\* whether ActionExecutor.execute reaches the handler call
Dispatched(action_name) ==
    TruthyStr(action_name) /\ action_name \in REGISTERED_ACTIONS

\* execute passing the APIError's message on without the prefix
ActionExecutor_execute_unprefixed(action_name, params, out) ==
    IF ~TruthyStr(action_name)
    THEN Ret(ActionResult(FALSE, <<"No action specified">>, NoData))
    ELSE IF action_name \notin REGISTERED_ACTIONS
    THEN Ret(ActionResult(FALSE, <<"Unknown action: ", action_name>>, NoData))
    ELSE LET h == handler(params, out) IN
         IF ~h.raised THEN h
         ELSE IF IsInstance(h.cls, "APIError")
         THEN Ret(ActionResult(FALSE, h.msg, NoData))
         ELSE IF IsInstance(h.cls, "Exception")
         THEN Ret(ActionResult(FALSE, P_ERROR_EXECUTING \o h.msg, NoData))
         ELSE h

ActionExecutor_execute(action_name, params, out) ==
    IF ~TruthyStr(action_name)
    THEN Ret(ActionResult(FALSE, <<"No action specified">>, NoData))
    ELSE IF action_name \notin REGISTERED_ACTIONS
    THEN Ret(ActionResult(FALSE, <<"Unknown action: ", action_name>>, NoData))
    ELSE LET h == handler(params, out) IN
         IF ~h.raised THEN h
         ELSE IF IsInstance(h.cls, "APIError")
         THEN Ret(ActionResult(FALSE, P_API_ERROR \o h.msg, NoData))
         ELSE IF IsInstance(h.cls, "Exception")
         THEN Ret(ActionResult(FALSE, P_ERROR_EXECUTING \o h.msg, NoData))
         ELSE h

----------------------------------------------------------------------------
(* agents/executor.py *)

action_suggestions ==
    [a \in {"list_pipelines", "get_pipeline", "pause_pipeline",
            "resume_pipeline", "run_pipeline", "list_objects", "skip_object",
            "restart_object", "list_destinations", "list_models", "run_model",
            "list_workflows", "run_workflow"} |->
        CASE a = "list_pipelines" ->
                <<"View details of a specific pipeline",
                  "Run a pipeline immediately">>
          [] a = "get_pipeline" ->
                <<"List objects in this pipeline", "Run the pipeline now",
                  "Pause the pipeline">>
          [] a = "pause_pipeline" ->
                <<"Resume the pipeline when ready", "Check pipeline status">>
          [] a = "resume_pipeline" ->
                <<"Run the pipeline immediately", "Check pipeline status">>
          [] a = "run_pipeline" ->
                <<"Check pipeline status", "List objects being synced">>
          [] a = "list_objects" ->
                <<"Skip an object from syncing", "Restart an object">>
          [] a = "skip_object" ->
                <<"Include the object again later", "List all objects">>
          [] a = "restart_object" ->
                <<"Check object status", "List all objects">>
          [] a = "list_destinations" -> <<"View destination details">>
          [] a = "list_models" -> <<"Run a model">>
          [] a = "run_model" -> <<"List models to see status">>
          [] a = "list_workflows" -> <<"Run a workflow">>
          [] a = "run_workflow" -> <<"List workflows to see status">>]

SUGGESTION_LIMIT == 3

\* _get_suggestions with the success test inverted
_get_suggestions_inverted(action, success, result_data) ==
    IF success THEN <<>>
    ELSE LET suggestions == IF action \in DOMAIN action_suggestions
                            THEN action_suggestions[action] ELSE <<>>
         IN SubSeq(suggestions, 1, Min(SUGGESTION_LIMIT, Len(suggestions)))

_get_suggestions(action, success, result_data) ==
    IF ~success THEN <<>>
    ELSE LET suggestions == IF action \in DOMAIN action_suggestions
                            THEN action_suggestions[action] ELSE <<>>
         IN SubSeq(suggestions, 1, Min(SUGGESTION_LIMIT, Len(suggestions)))

\* the heuristic without .lower()
error_code_of_case_sensitive(error_message) ==
    IF Contains(error_message, C_NOT_FOUND) THEN "NOT_FOUND"
    ELSE IF Contains(error_message, C_PERMISSION) THEN "PERMISSION_DENIED"
    ELSE IF Contains(error_message, C_ALREADY) THEN "ALREADY_EXISTS"
    ELSE "API_ERROR"

\* the message-substring heuristic of _convert_result
error_code_of(error_message) ==
    IF Contains(lower(error_message), C_NOT_FOUND) THEN "NOT_FOUND"
    ELSE IF Contains(lower(error_message), C_PERMISSION) THEN "PERMISSION_DENIED"
    ELSE IF Contains(lower(error_message), C_ALREADY) THEN "ALREADY_EXISTS"
    ELSE "API_ERROR"

_convert_result(action, r) ==
    IF r.success
    THEN LET result_data ==
                 IF ~TruthyData(r.data) THEN EmptyMap
                 ELSE IF r.data.shape = "object" THEN r.data.fields
                 ELSE IF r.data.shape = "dict" THEN r.data.fields
                 ELSE IF r.data.shape = "list"
                 THEN [items |-> r.data.items, count |-> Len(r.data.items)]
                 ELSE EmptyMap
             suggestions == _get_suggestions(action, r.success, result_data)
         IN success_result(action, result_data, r.message, suggestions)
    ELSE error_result(action, error_code_of(r.message), r.message)

\* `directive.params or {}`
ParamsOrEmpty(p) == IF p = NoneParams THEN EmptyMap ELSE p

\* params.get(k)
Get(p, k) == IF k \in DOMAIN p THEN p[k] ELSE NoneStr

\* execute calling the handler with neither try block around it
execute_no_try(d, out) ==
    IF d.directive_type # "execute"
    THEN Ret(error_result("unknown", "INVALID_DIRECTIVE",
                          <<"Cannot execute directive of type: ", d.directive_type>>))
    ELSE IF ~TruthyStr(d.action)
    THEN Ret(error_result("unknown", "MISSING_ACTION",
                          <<"No action specified in directive">>))
    ELSE IF d.action \notin REGISTERED_ACTIONS
    THEN Ret(error_result(d.action, "UNKNOWN_ACTION",
                          <<"Unknown action: ", d.action>>))
    ELSE LET h == handler(ParamsOrEmpty(d.params), out) IN
         IF h.raised THEN h ELSE Ret(_convert_result(d.action, h.val))

execute(d, out) ==
    IF d.directive_type # "execute"
    THEN Ret(error_result("unknown", "INVALID_DIRECTIVE",
                          <<"Cannot execute directive of type: ", d.directive_type>>))
    ELSE IF ~TruthyStr(d.action)
    THEN Ret(error_result("unknown", "MISSING_ACTION",
                          <<"No action specified in directive">>))
    ELSE IF d.action \notin REGISTERED_ACTIONS
    THEN Ret(error_result(d.action, "UNKNOWN_ACTION",
                          <<"Unknown action: ", d.action>>))
    ELSE LET r == ActionExecutor_execute(d.action, ParamsOrEmpty(d.params), out) IN
         IF ~r.raised THEN Ret(_convert_result(d.action, r.val))
         ELSE IF IsInstance(r.cls, "Exception")
         THEN Ret(error_result(d.action, "EXECUTION_ERROR", r.msg))
         ELSE r

\* whether execute(d) reaches a handler of the capability layer
ExecuteDispatches(d) ==
    /\ d.directive_type = "execute"
    /\ TruthyStr(d.action)
    /\ d.action \in REGISTERED_ACTIONS
    /\ Dispatched(d.action)

id_actions ==
    {"get_pipeline", "pause_pipeline", "resume_pipeline", "run_pipeline",
     "run_model", "run_workflow"}

\* the list before pause_object and resume_object were added
object_actions_short == {"skip_object", "restart_object"}

object_actions == {"skip_object", "restart_object", "pause_object", "resume_object"}

Valid == [ok |-> TRUE, error |-> NoneText]
Invalid(msg) == [ok |-> FALSE, error |-> msg]

\* validate_directive without the check against the dispatch table
validate_directive_any_action(d) ==
    IF d.directive_type # "execute"
    THEN Invalid(<<"Cannot execute directive of type: ", d.directive_type>>)
    ELSE IF ~TruthyStr(d.action)
    THEN Invalid(<<"No action specified">>)
    ELSE LET params == ParamsOrEmpty(d.params) IN
         IF /\ d.action \in id_actions
            /\ ~TruthyStr(Get(params, "name"))
            /\ ~TruthyStr(Get(params, "id"))
         THEN Invalid(<<"Pipeline/resource name or ID is required for ", d.action>>)
         ELSE IF /\ d.action \in object_actions
                 /\ ~TruthyStr(Get(params, "pipeline_id"))
                 /\ ~TruthyStr(Get(params, "pipeline_name"))
         THEN Invalid(<<"Pipeline ID or name is required">>)
         ELSE IF /\ d.action \in object_actions
                 /\ ~TruthyStr(Get(params, "object_name"))
         THEN Invalid(<<"Object name is required">>)
         ELSE Valid

validate_directive(d) ==
    IF d.directive_type # "execute"
    THEN Invalid(<<"Cannot execute directive of type: ", d.directive_type>>)
    ELSE IF ~TruthyStr(d.action)
    THEN Invalid(<<"No action specified">>)
    ELSE IF d.action \notin REGISTERED_ACTIONS
    THEN Invalid(<<"Unknown action: ", d.action>>)
    ELSE LET params == ParamsOrEmpty(d.params) IN
         IF /\ d.action \in id_actions
            /\ ~TruthyStr(Get(params, "name"))
            /\ ~TruthyStr(Get(params, "id"))
         THEN Invalid(<<"Pipeline/resource name or ID is required for ", d.action>>)
         ELSE IF /\ d.action \in object_actions
                 /\ ~TruthyStr(Get(params, "pipeline_id"))
                 /\ ~TruthyStr(Get(params, "pipeline_name"))
         THEN Invalid(<<"Pipeline ID or name is required">>)
         ELSE IF /\ d.action \in object_actions
                 /\ ~TruthyStr(Get(params, "object_name"))
         THEN Invalid(<<"Object name is required">>)
         ELSE Valid

----------------------------------------------------------------------------
(* The LLM's text as CoordinatorAgent._parse_directive reads it.  The text *)
(* is a sequence of segments: prose, or one region that one of the three   *)
(* json_patterns matches (a fenced block tagged json, an untagged fenced   *)
(* block, an inline object literal holding the "directive_type" key).  A   *)
(* block's body says whether json.loads accepts the captured text, whether *)
(* the object is brace-free inside (only then can pattern 3 match it), and *)
(* what the decoded dict holds.                                            *)

AbsentStr == "<absent>"
AbsentParams == [k \in {"<absent>"} |-> ""]
AbsentList == <<"<absent>">>

\* a decoded JSON object: the keys from_dict reads
JsonObj(dt, action, params, context, question, missing_params, info_response) ==
    [directive_type |-> dt, action |-> action, params |-> params,
     context |-> context, question |-> question,
     missing_params |-> missing_params, info_response |-> info_response]

Body(parses, flat, data) == [parses |-> parses, flat |-> flat, data |-> data]
NoBody == Body(FALSE, FALSE, JsonObj(AbsentStr, NoneStr, AbsentParams, NoneText,
                                     NoneText, AbsentList, NoneText))

Prose(chars) == [kind |-> "prose", chars |-> chars, body |-> NoBody]
Block(kind, body) == [kind |-> kind, chars |-> <<>>, body |-> body]

TextOrNothing(t) == IF t = NoneText THEN <<>> ELSE t

\* the characters of one segment; keys, names and fence marks are opaque
\* literals (none of them holds a cue word), the free-text values are not
Render(seg) ==
    IF seg.kind = "prose" THEN seg.chars
    ELSE <<seg.kind, "{", seg.body.data.directive_type, seg.body.data.action>>
         \o TextOrNothing(seg.body.data.question)
         \o TextOrNothing(seg.body.data.info_response)
         \o <<"}">>

RECURSIVE TextOf(_)
TextOf(segs) ==
    IF segs = <<>> THEN <<>> ELSE Render(Head(segs)) \o TextOf(Tail(segs))

\* from_dict keeping the discriminator as a plain string
from_dict_unchecked(data) ==
    Ret(ActionDirective(
            IF data.directive_type = AbsentStr THEN "execute"
            ELSE data.directive_type,
            IF data.action = AbsentStr THEN NoneStr ELSE data.action,
            IF data.params = AbsentParams THEN EmptyMap ELSE data.params,
            data.context,
            data.question,
            IF data.missing_params = AbsentList THEN <<>> ELSE data.missing_params,
            data.info_response))

\* ActionDirective.from_dict; DirectiveType(value) raises ValueError for
\* anything but the four values
from_dict(data) ==
    LET dt == IF data.directive_type = AbsentStr THEN "execute"
              ELSE data.directive_type
    IN IF dt \notin DirectiveType
       THEN Raise("ValueError", <<dt, " is not a valid DirectiveType">>)
       ELSE Ret(ActionDirective(
                dt,
                IF data.action = AbsentStr THEN NoneStr ELSE data.action,
                IF data.params = AbsentParams THEN EmptyMap ELSE data.params,
                data.context,
                data.question,
                IF data.missing_params = AbsentList THEN <<>>
                ELSE data.missing_params,
                data.info_response))

\* the patterns tried in the opposite order
json_patterns_reversed == <<"inline", "fence", "json_fence">>

json_patterns == <<"json_fence", "fence", "inline">>

\* whether the regular expression json_patterns[p] matches inside segment seg
PatternMatches(p, seg) ==
    CASE json_patterns[p] = "json_fence" -> seg.kind = "json_fence"
      [] json_patterns[p] = "fence" -> seg.kind = "fence"
      [] json_patterns[p] = "inline" ->
            \/ seg.kind = "inline"
            \/ /\ seg.kind \in {"json_fence", "fence"}
               /\ seg.body.flat
               /\ seg.body.data.directive_type # AbsentStr

\* re.search(pattern, response): the leftmost match, 0 for no match
search(p, segs) ==
    IF \E i \in 1..Len(segs) : PatternMatches(p, segs[i])
    THEN CHOOSE i \in 1..Len(segs) :
            /\ PatternMatches(p, segs[i])
            /\ \A j \in 1..(i - 1) : ~PatternMatches(p, segs[j])
    ELSE 0

\* json.loads(match.group(1)) followed by from_dict, inside the try
decode(body) ==
    IF ~body.parses THEN Raise("JSONDecodeError", <<"Expecting value">>)
    ELSE from_dict(body.data)

CLARIFY_CUES ==
    {<<"w", "h", "i", "c", "h">>, <<"w", "h", "a", "t">>,
     <<"p", "l", "e", "a", "s", "e", " ", "s", "p", "e", "c", "i", "f", "y">>,
     <<"c", "o", "u", "l", "d", " ", "y", "o", "u">>}

UNSUPPORTED_CUES ==
    {<<"c", "a", "n", "n", "o", "t">>,
     <<"n", "o", "t", " ", "s", "u", "p", "p", "o", "r", "t", "e", "d">>,
     <<"n", "o", "t", " ", "a", "v", "a", "i", "l", "a", "b", "l", "e">>,
     <<"s", "o", "r", "r", "y">>}

\* the fallback testing the refusal cues before the clarification cues
infer_directive_refusal_first(text) ==
    IF \E u \in UNSUPPORTED_CUES : Contains(lower(text), u)
    THEN Directive_unsupported(text)
    ELSE IF \E q \in CLARIFY_CUES : Contains(lower(text), q)
    THEN Directive_clarify(text, <<"unknown">>)
    ELSE Directive_info_only(text)

\* the fallback of _parse_directive when no candidate decoded
infer_directive(text) ==
    IF \E q \in CLARIFY_CUES : Contains(lower(text), q)
    THEN Directive_clarify(text, <<"unknown">>)
    ELSE IF \E u \in UNSUPPORTED_CUES : Contains(lower(text), u)
    THEN Directive_unsupported(text)
    ELSE Directive_info_only(text)

\* the for loop over json_patterns, from pattern p on
RECURSIVE parse_from(_, _)
parse_from(p, segs) ==
    IF p > Len(json_patterns) THEN Ret(infer_directive(TextOf(segs)))
    ELSE LET m == search(p, segs) IN
         IF m = 0 THEN parse_from(p + 1, segs)
         ELSE LET r == decode(segs[m].body) IN
              IF ~r.raised THEN r
              ELSE IF r.cls \in {"JSONDecodeError", "KeyError", "ValueError"}
              THEN parse_from(p + 1, segs)
              ELSE r

_parse_directive(segs) == parse_from(1, segs)

P_TROUBLE == <<"I'm having trouble understanding right now. Error: ">>

\* process without the try around llm.chat
Coordinator_process_no_except(llm) ==
    IF llm.raised THEN llm ELSE _parse_directive(llm.val)

\* CoordinatorAgent.process from the llm.chat call on; llm is what the call
\* did: Ret(text) or Raise(cls, msg)
Coordinator_process(llm) ==
    IF llm.raised
    THEN IF IsInstance(llm.cls, "Exception")
         THEN Ret(Directive_unsupported(P_TROUBLE \o llm.msg))
         ELSE llm
    ELSE _parse_directive(llm.val)

----------------------------------------------------------------------------
(* agents/orchestrator.py *)

\* "\n".join(lines)
RECURSIVE join(_)
join(lines) ==
    IF lines = <<>> THEN <<>>
    ELSE IF Len(lines) = 1 THEN Head(lines)
    ELSE Head(lines) \o <<"\n">> \o join(Tail(lines))

LIST_ACTIONS == {"list_pipelines", "list_destinations", "list_models", "list_workflows"}

\* the registered names that hold the substring "pipeline", "model", "workflow"
PIPELINE_NAMED == {"list_pipelines", "get_pipeline", "create_pipeline",
                   "delete_pipeline", "pause_pipeline", "resume_pipeline",
                   "run_pipeline", "update_pipeline_priority",
                   "get_pipeline_schedule", "update_pipeline_schedule",
                   "get_pipeline_position", "update_pipeline_position",
                   "update_pipeline_source"}
MODEL_NAMED == {"list_models", "get_model", "create_model", "update_model",
                "delete_model", "run_model", "pause_model", "resume_model",
                "reset_model", "update_model_schedule"}
WORKFLOW_NAMED == {"list_workflows", "get_workflow", "run_workflow"}

_format_response(d, res) ==
    IF res.success
    THEN LET first == IF Truthy(res.message) THEN <<res.message>>
                      ELSE << <<"Action '", d.action, "' completed successfully!">> >>
             status == IF /\ DOMAIN res.result # {}
                          /\ d.action \notin LIST_ACTIONS
                          /\ "status" \in DOMAIN res.result
                       THEN << <<"\nStatus: ", res.result["status"]>> >>
                       ELSE <<>>
             shown == SubSeq(res.suggestions, 1, Min(3, Len(res.suggestions)))
             tips == IF res.suggestions # <<>>
                     THEN << <<"\nYou might want to:">> >>
                          \o [i \in 1..Len(shown) |-> <<"  - ", shown[i]>>]
                     ELSE <<>>
         IN join(first \o status \o tips)
    ELSE LET error_msg == IF "message" \in DOMAIN res.error
                          THEN res.error.message ELSE <<"Something went wrong.">>
             error_code == IF "code" \in DOMAIN res.error
                           THEN res.error.code ELSE "ERROR"
             head == << <<"Error (", error_code, "): ">> \o error_msg >>
             tip == IF error_code # "NOT_FOUND" THEN <<>>
                    ELSE << <<"\nTip: You can list available resources first:">> >>
                         \o (IF d.action \in PIPELINE_NAMED
                             THEN << <<"  - \"List my pipelines\"">> >>
                             ELSE IF d.action \in MODEL_NAMED
                             THEN << <<"  - \"List my models\"">> >>
                             ELSE IF d.action \in WORKFLOW_NAMED
                             THEN << <<"  - \"List my workflows\"">> >>
                             ELSE <<>>)
         IN join(head \o tip)

P_COULD_NOT_EXECUTE == <<"I couldn't execute that action: ">>

\* step 2 with the UNSUPPORTED text returned as it is
branch_reply_unprefixed(d) ==
    CASE d.directive_type = "clarify" ->
            IF Truthy(d.question) THEN d.question
            ELSE <<"Could you please provide more details?">>
      [] d.directive_type = "unsupported" ->
            IF Truthy(d.info_response) THEN d.info_response ELSE <<>>
      [] d.directive_type = "info_only" ->
            IF Truthy(d.info_response) THEN d.info_response ELSE <<>>

\* step 2 of process: the reply for a directive that is not executed
branch_reply(d) ==
    CASE d.directive_type = "clarify" ->
            IF Truthy(d.question) THEN d.question
            ELSE <<"Could you please provide more details?">>
      [] d.directive_type = "unsupported" ->
            <<"I'm sorry, ">> \o (IF Truthy(d.info_response) THEN d.info_response
                                  ELSE <<"that action is not supported.">>)
      [] d.directive_type = "info_only" ->
            IF Truthy(d.info_response) THEN d.info_response ELSE <<>>

----------------------------------------------------------------------------
(* Inputs *)

F_PIPELINE_X == <<"P", "i", "p", "e", "l", "i", "n", "e", " ", "'", "X", "'", " ">>
F_PERMISSION_UP == <<"P", "e", "r", "m", "i", "s", "s", "i", "o", "n">>

\* what capability-layer messages are made of
MsgFragments == {F_PIPELINE_X, C_NOT_FOUND, F_PERMISSION_UP, C_ALREADY}

RECURSIVE Flatten(_)
Flatten(fs) == IF fs = <<>> THEN <<>> ELSE Head(fs) \o Flatten(Tail(fs))

Messages ==
    {Flatten(fs) : fs \in UNION {[1..n -> MsgFragments] : n \in 0..MaxFrags}}

DataShapes ==
    {NoData,
     Data("list", <<>>, EmptyMap),
     Data("list", <<"a", "b">>, EmptyMap),
     Data("dict", <<>>, EmptyMap),
     Data("dict", <<>>, [status |-> "ACTIVE"]),
     Data("object", <<>>, [name |-> "p1", status |-> "PAUSED"])}

Outcome(kind, cls, success, message, data) ==
    [kind |-> kind, cls |-> cls, success |-> success, message |-> message,
     data |-> data]
NoOutcome == Outcome("none", "", FALSE, <<>>, NoData)

\* every behaviour of a handler: success, business failure, APIError, any
\* other exception
HandlerOutcomes ==
    {Outcome("return", "", TRUE, m, dt) : m \in {<<"ok">>, <<>>}, dt \in DataShapes}
    \cup {Outcome("return", "", FALSE, m, NoData) : m \in Messages}
    \cup {Outcome("raise", c, FALSE, m, NoData) :
             c \in {"APIError", "ConnectionError"}, m \in Messages}

ParamKeys == {"name", "id", "pipeline_id", "pipeline_name", "object_name"}
ParamValues == {"", "X"}
ParamMaps ==
    UNION {[ks -> ParamValues] :
             ks \in {k \in SUBSET ParamKeys : Cardinality(k) <= MaxParams}}

ActionDomain == REGISTERED_ACTIONS \cup {"frobnicate", "", NoneStr}

T_WHICH == <<"W", "h", "i", "c", "h", " ", "o", "n", "e">>
T_SORRY == <<"S", "o", "r", "r", "y">>
T_DONE == <<"D", "o", "n", "e">>
T_COULD_YOU_CLARIFY ==
    <<"C", "o", "u", "l", "d", " ", "y", "o", "u", " ", "c", "l", "a", "r", "i", "f", "y">>
OptTexts == {NoneText, <<>>, T_WHICH}

\* the directives ExecutorAgent is handed when it is called directly
Directives ==
    {ActionDirective("execute", a, p, NoneText, NoneText, <<>>, NoneText) :
        a \in ActionDomain, p \in ParamMaps \cup {NoneParams}}
    \cup {ActionDirective(t, a, p, NoneText, q, <<>>, i) :
             t \in DirectiveType \ {"execute"},
             a \in {NoneStr, "pause_pipeline"},
             p \in {EmptyMap, [k \in {"name"} |-> "X"]},
             q \in OptTexts, i \in OptTexts}

NoDirective == ActionDirective("<unset>", NoneStr, EmptyMap, NoneText, NoneText,
                               <<>>, NoneText)
NoValidation == [ok |-> FALSE, error |-> <<"<unset>">>]
Unset == [raised |-> FALSE]

IsSet(r) == r.raised \/ "val" \in DOMAIN r
Returned(r) == ~r.raised /\ "val" \in DOMAIN r

NoArg == [fn |-> "<none>"]

\* a fresh orchestrator, no call made, a fresh rate limiter
WorldIdle ==
    /\ pipelines_cache = NoneList
    /\ destinations_cache = NoneList
    /\ calls = <<>>
    /\ fetches = [pipelines |-> 0, destinations |-> 0]
    /\ requests = <<>>
    /\ now = 0

\* no library call under way and no chat session open
SessionIdle ==
    /\ arg = NoArg
    /\ ret = Unset
    /\ user_input = NoneText
    /\ history = <<>>
    /\ appended = <<>>
    /\ WorldIdle

----------------------------------------------------------------------------
(* ExecutorAgent called directly: validate_directive, then execute, on any *)
(* directive                                                               *)

\* for execute the params only pass through to the handler
ExecDirectives ==
    {d \in Directives :
        d.params \in {EmptyMap, NoneParams, [k \in {"name"} |-> "X"]}}

InitDirect ==
    /\ pc = "direct"
    /\ directive \in ExecDirectives
    /\ response = Unset
    /\ validation = NoValidation
    /\ outcome = NoOutcome
    /\ result = Unset
    /\ reply = NoneText
    /\ executeCalls = 0
    /\ SessionIdle

DirectValidate ==
    /\ pc = "direct"
    /\ validation' = validate_directive(directive)
    /\ pc' = "direct_validated"
    /\ UNCHANGED <<response, directive, outcome, result, reply, executeCalls>>
    /\ UNCHANGED session

DirectExecute ==
    /\ pc = "direct_validated"
    /\ \E out \in HandlerOutcomes :
          /\ outcome' = IF ExecuteDispatches(directive) THEN out ELSE NoOutcome
          /\ result' = execute(directive, outcome')
    /\ executeCalls' = executeCalls + 1
    /\ pc' = "direct_executed"
    /\ UNCHANGED <<response, directive, validation, reply>>
    /\ UNCHANGED session

NextDirect == DirectValidate \/ DirectExecute

SpecDirect == InitDirect /\ [][NextDirect]_vars

----------------------------------------------------------------------------
(* validate_directive alone, on every directive *)

InitValidate ==
    /\ pc = "validate"
    /\ directive \in Directives
    /\ response = Unset
    /\ validation = NoValidation
    /\ outcome = NoOutcome
    /\ result = Unset
    /\ reply = NoneText
    /\ executeCalls = 0
    /\ SessionIdle

ValidateOnly ==
    /\ pc = "validate"
    /\ validation' = validate_directive(directive)
    /\ pc' = "validate_done"
    /\ UNCHANGED <<response, directive, outcome, result, reply, executeCalls>>
    /\ UNCHANGED session

SpecValidate == InitValidate /\ [][ValidateOnly]_vars

----------------------------------------------------------------------------
(* CoordinatorAgent.process alone *)

MaxSegs == 2     \* segments per LLM response

T_TIMEOUT == <<"t", "i", "m", "e", "o", "u", "t">>
ProseTexts == {T_COULD_YOU_CLARIFY, T_SORRY, T_DONE}

ExecObj(dt, a, p) == JsonObj(dt, a, p, NoneText, NoneText, AbsentList, NoneText)
TalkObj(dt, q, i) == JsonObj(dt, AbsentStr, AbsentParams, NoneText, q, AbsentList, i)

CoordBodies ==
    {Body(FALSE, TRUE, TalkObj("clarify", T_WHICH, NoneText)),
     Body(FALSE, FALSE, ExecObj(AbsentStr, "pause_pipeline", EmptyMap)),
     Body(TRUE, FALSE, ExecObj(AbsentStr, "pause_pipeline", [k \in {"name"} |-> "X"])),
     Body(TRUE, TRUE, ExecObj("execute", "list_pipelines", AbsentParams)),
     Body(TRUE, TRUE, TalkObj("clarify", T_WHICH, NoneText)),
     Body(TRUE, TRUE, TalkObj("unsupported", NoneText, T_SORRY)),
     Body(TRUE, TRUE, TalkObj("info_only", NoneText, T_DONE)),
     Body(TRUE, TRUE, TalkObj("bogus", T_WHICH, NoneText)),
     Body(TRUE, TRUE, TalkObj("<null>", NoneText, T_SORRY))}

CoordSegments ==
    {Prose(t) : t \in ProseTexts}
    \cup {Block(k, b) : k \in {"json_fence", "fence"}, b \in CoordBodies}
    \cup {Block("inline", b) :
             b \in {c \in CoordBodies : c.flat /\ c.data.directive_type # AbsentStr}}

CoordResponses == UNION {[1..n -> CoordSegments] : n \in 0..MaxSegs}

LLMErrors == {Raise(c, m) : c \in {"ConnectionError", "APIError"},
                            m \in {T_TIMEOUT, <<>>}}

InitCoord ==
    /\ pc = "coord"
    /\ response = Unset
    /\ directive = NoDirective
    /\ validation = NoValidation
    /\ outcome = NoOutcome
    /\ result = Unset
    /\ reply = NoneText
    /\ executeCalls = 0
    /\ SessionIdle

CoordProcess ==
    /\ pc = "coord"
    /\ \E llm \in {Ret(r) : r \in CoordResponses} \cup LLMErrors :
          /\ response' = llm
          /\ LET r == Coordinator_process(llm) IN
                /\ directive' = IF r.raised THEN NoDirective ELSE r.val
                /\ pc' = IF r.raised THEN "coord_raised" ELSE "coord_done"
    /\ UNCHANGED <<validation, outcome, result, reply, executeCalls>>
    /\ UNCHANGED session

SpecCoord == InitCoord /\ [][CoordProcess]_vars

----------------------------------------------------------------------------
(* AgentOrchestrator.process, one user turn after the other *)

TurnActions ==
    id_actions \cup object_actions
    \cup {"pause_model", "list_pipelines", "update_destination",
          "delete_pipeline", "frobnicate", "", AbsentStr}

TurnBodies ==
    {Body(TRUE, p = AbsentParams, ExecObj("execute", a, p)) :
        a \in TurnActions, p \in ParamMaps \cup {NoneParams, AbsentParams}}
    \cup {Body(TRUE, TRUE, TalkObj(dt, q, i)) :
             dt \in {"clarify", "unsupported", "info_only", "bogus"},
             q \in OptTexts, i \in OptTexts}
    \cup {Body(FALSE, TRUE, TalkObj("clarify", T_WHICH, NoneText))}

TurnResponses ==
    {<<Block("json_fence", b)>> : b \in TurnBodies}
    \cup {<<Prose(t)>> : t \in ProseTexts}
    \cup {<<>>}

Init ==
    /\ pc = "idle"
    /\ response = Unset
    /\ directive = NoDirective
    /\ validation = NoValidation
    /\ outcome = NoOutcome
    /\ result = Unset
    /\ reply = NoneText
    /\ executeCalls = 0
    /\ SessionIdle

\* step 1: the Coordinator produces the directive
Coordinate ==
    /\ pc = "idle"
    /\ \E llm \in {Ret(r) : r \in TurnResponses} \cup LLMErrors :
          /\ response' = llm
          /\ LET r == Coordinator_process(llm) IN
                /\ directive' = IF r.raised THEN NoDirective ELSE r.val
                /\ pc' = IF r.raised THEN "raised" ELSE "branch"
    /\ UNCHANGED <<validation, outcome, result, reply, executeCalls>>
    /\ UNCHANGED session

\* step 2: a directive that is not EXECUTE is answered at once
Branch ==
    /\ pc = "branch"
    /\ IF directive.directive_type \in {"clarify", "unsupported", "info_only"}
       THEN reply' = branch_reply(directive) /\ pc' = "done"
       ELSE reply' = reply /\ pc' = "validate"
    /\ UNCHANGED <<response, directive, validation, outcome, result, executeCalls>>
    /\ UNCHANGED session

\* Validate without the early return of orchestrator.py:100-101
Validate_no_return ==
    /\ pc = "validate"
    /\ validation' = validate_directive(directive)
    /\ reply' = reply
    /\ pc' = "execute"
    /\ UNCHANGED <<response, directive, outcome, result, executeCalls>>
    /\ UNCHANGED session

\* step 3: validate_directive
Validate ==
    /\ pc = "validate"
    /\ validation' = validate_directive(directive)
    /\ IF validation'.ok
       THEN reply' = reply /\ pc' = "execute"
       ELSE reply' = P_COULD_NOT_EXECUTE \o validation'.error /\ pc' = "done"
    /\ UNCHANGED <<response, directive, outcome, result, executeCalls>>
    /\ UNCHANGED session

\* steps 4 and 5: executor.execute and _format_response
Execute ==
    /\ pc = "execute"
    /\ \E out \in HandlerOutcomes :
          /\ outcome' = IF ExecuteDispatches(directive) THEN out ELSE NoOutcome
          /\ result' = execute(directive, outcome')
    /\ executeCalls' = executeCalls + 1
    /\ IF result'.raised
       THEN reply' = reply /\ pc' = "raised"
       ELSE reply' = _format_response(directive, result'.val) /\ pc' = "done"
    /\ UNCHANGED <<response, directive, validation>>
    /\ UNCHANGED session

\* the caller starts the next turn
NextTurn ==
    /\ pc \in {"done", "raised"}
    /\ pc' = "idle"
    /\ response' = Unset
    /\ directive' = NoDirective
    /\ validation' = NoValidation
    /\ outcome' = NoOutcome
    /\ result' = Unset
    /\ reply' = NoneText
    /\ executeCalls' = 0
    /\ UNCHANGED session

Next == Coordinate \/ Branch \/ Validate \/ Execute \/ NextTurn

Spec == Init /\ [][Next]_vars

----------------------------------------------------------------------------
(* agents/schemas.py: ActionDirective.to_dict and the round trip through  *)
(* from_dict.  A serialized directive is a dict: a function whose domain   *)
(* is the set of keys that were emitted.                                   *)

\* bool(x) for an Optional[list] and an Optional[dict]
TruthyList(l) == l # NoneList /\ l # <<>>
TruthyParams(p) == p # NoneParams /\ DOMAIN p # {}

\* ActionDirective.to_dict
to_dict(d) ==
    LET keys == {"directive_type"}
                \cup (IF TruthyStr(d.action) THEN {"action"} ELSE {})
                \cup (IF TruthyParams(d.params) THEN {"params"} ELSE {})
                \cup (IF Truthy(d.context) THEN {"context"} ELSE {})
                \cup (IF Truthy(d.question) THEN {"question"} ELSE {})
                \cup (IF TruthyList(d.missing_params) THEN {"missing_params"} ELSE {})
                \cup (IF Truthy(d.info_response) THEN {"info_response"} ELSE {})
    IN [k \in keys |-> d[k]]

\* the dict as from_dict reads it: data.get(key) for each of its keys
Loaded(data) ==
    JsonObj(IF "directive_type" \in DOMAIN data THEN data["directive_type"]
            ELSE AbsentStr,
            IF "action" \in DOMAIN data THEN data["action"] ELSE AbsentStr,
            IF "params" \in DOMAIN data THEN data["params"] ELSE AbsentParams,
            IF "context" \in DOMAIN data THEN data["context"] ELSE NoneText,
            IF "question" \in DOMAIN data THEN data["question"] ELSE NoneText,
            IF "missing_params" \in DOMAIN data THEN data["missing_params"]
            ELSE AbsentList,
            IF "info_response" \in DOMAIN data THEN data["info_response"]
            ELSE NoneText)

\* the directives the constructor, the factories and from_dict can build
SchemaDirectives ==
    {ActionDirective(t, a, p, c, q, m, i) :
        t \in DirectiveType,
        a \in {NoneStr, "", "pause_pipeline"},
        p \in {NoneParams, EmptyMap, [k \in {"name"} |-> "X"]},
        c \in {NoneText, T_DONE},
        q \in OptTexts,
        m \in {NoneList, <<>>, <<"name">>},
        i \in OptTexts}

InitSchema ==
    /\ pc = "schema"
    /\ directive \in SchemaDirectives
    /\ response = Unset
    /\ validation = NoValidation
    /\ outcome = NoOutcome
    /\ result = Unset
    /\ reply = NoneText
    /\ executeCalls = 0
    /\ SessionIdle

\* d.to_dict()
ToDict ==
    /\ pc = "schema"
    /\ arg' = [fn |-> "from_dict", data |-> to_dict(directive)]
    /\ pc' = "serialized"
    /\ UNCHANGED <<response, directive, validation, outcome, result, reply,
                   executeCalls, ret, user_input, history, appended>>
    /\ UNCHANGED world

\* ActionDirective.from_dict(data)
FromDict ==
    /\ pc = "serialized"
    /\ ret' = from_dict(Loaded(arg.data))
    /\ pc' = "decoded"
    /\ UNCHANGED <<response, directive, validation, outcome, result, reply,
                   executeCalls, arg, user_input, history, appended>>
    /\ UNCHANGED world

NextSchema == ToDict \/ FromDict

SpecSchema == InitSchema /\ [][NextSchema]_vars

----------------------------------------------------------------------------
(* domain/knowledge.py: the connector sets and validate_pipeline_direction *)
(* Connector names are spelled character by character: they are upper-     *)
(* cased, stripped and searched for separators.                            *)

SOURCES ==
    {<<"M", "Y", "S", "Q", "L">>,
     <<"P", "O", "S", "T", "G", "R", "E", "S">>,
     <<"M", "O", "N", "G", "O", "D", "B">>,
     <<"S", "Q", "L", "_", "S", "E", "R", "V", "E", "R">>,
     <<"O", "R", "A", "C", "L", "E">>,
     <<"D", "Y", "N", "A", "M", "O", "D", "B">>,
     <<"D", "O", "C", "U", "M", "E", "N", "T", "D", "B">>,
     <<"E", "L", "A", "S", "T", "I", "C", "S", "E", "A", "R", "C", "H">>,
     <<"M", "A", "R", "I", "A", "D", "B">>,
     <<"C", "O", "C", "K", "R", "O", "A", "C", "H", "D", "B">>,
     <<"C", "O", "U", "C", "H", "D", "B">>,
     <<"C", "A", "S", "S", "A", "N", "D", "R", "A">>,
     <<"F", "I", "R", "E", "S", "T", "O", "R", "E">>,
     <<"F", "I", "R", "E", "B", "A", "S", "E", "_", "R", "E", "A", "L", "T", "I", "M", "E">>,
     <<"R", "E", "D", "S", "H", "I", "F", "T">>,
     <<"B", "I", "G", "Q", "U", "E", "R", "Y">>,
     <<"G", "O", "O", "G", "L", "E", "_", "A", "D", "S">>,
     <<"F", "A", "C", "E", "B", "O", "O", "K", "_", "A", "D", "S">>,
     <<"H", "U", "B", "S", "P", "O", "T">>,
     <<"S", "A", "L", "E", "S", "F", "O", "R", "C", "E", "_", "M", "A", "R", "K", "E", "T", "I", "N", "G", "_", "C", "L", "O", "U", "D">>,
     <<"M", "A", "I", "L", "C", "H", "I", "M", "P">>,
     <<"L", "I", "N", "K", "E", "D", "I", "N", "_", "A", "D", "S">>,
     <<"T", "I", "K", "T", "O", "K", "_", "A", "D", "S">>,
     <<"S", "N", "A", "P", "C", "H", "A", "T", "_", "A", "D", "S">>,
     <<"P", "I", "N", "T", "E", "R", "E", "S", "T", "_", "A", "D", "S">>,
     <<"T", "W", "I", "T", "T", "E", "R", "_", "A", "D", "S">>,
     <<"M", "I", "C", "R", "O", "S", "O", "F", "T", "_", "A", "D", "S">>,
     <<"K", "L", "A", "V", "I", "Y", "O">>,
     <<"A", "C", "T", "I", "V", "E", "C", "A", "M", "P", "A", "I", "G", "N">>,
     <<"S", "E", "N", "D", "G", "R", "I", "D">>,
     <<"B", "R", "A", "Z", "E">>,
     <<"I", "T", "E", "R", "A", "B", "L", "E">>,
     <<"M", "A", "R", "K", "E", "T", "O">>,
     <<"P", "A", "R", "D", "O", "T">>,
     <<"S", "A", "L", "E", "S", "F", "O", "R", "C", "E">>,
     <<"Z", "E", "N", "D", "E", "S", "K">>,
     <<"F", "R", "E", "S", "H", "D", "E", "S", "K">>,
     <<"I", "N", "T", "E", "R", "C", "O", "M">>,
     <<"P", "I", "P", "E", "D", "R", "I", "V", "E">>,
     <<"H", "U", "B", "S", "P", "O", "T", "_", "C", "R", "M">>,
     <<"O", "U", "T", "R", "E", "A", "C", "H">>,
     <<"F", "R", "O", "N", "T">>,
     <<"C", "L", "O", "S", "E">>,
     <<"C", "O", "P", "P", "E", "R">>,
     <<"Z", "O", "H", "O", "_", "C", "R", "M">>,
     <<"S", "H", "O", "P", "I", "F", "Y">>,
     <<"W", "O", "O", "C", "O", "M", "M", "E", "R", "C", "E">>,
     <<"S", "T", "R", "I", "P", "E">>,
     <<"A", "M", "P", "L", "I", "T", "U", "D", "E">>,
     <<"M", "I", "X", "P", "A", "N", "E", "L">>,
     <<"S", "E", "G", "M", "E", "N", "T">>,
     <<"P", "E", "N", "D", "O">>,
     <<"B", "I", "G", "C", "O", "M", "M", "E", "R", "C", "E">>,
     <<"M", "A", "G", "E", "N", "T", "O">>,
     <<"R", "E", "C", "H", "A", "R", "G", "E">>,
     <<"G", "O", "R", "G", "I", "A", "S">>,
     <<"G", "I", "T", "H", "U", "B">>,
     <<"G", "I", "T", "L", "A", "B">>,
     <<"J", "I", "R", "A">>,
     <<"A", "S", "A", "N", "A">>,
     <<"T", "R", "E", "L", "L", "O">>,
     <<"P", "A", "G", "E", "R", "D", "U", "T", "Y">>,
     <<"O", "P", "S", "G", "E", "N", "I", "E">>,
     <<"D", "A", "T", "A", "D", "O", "G">>,
     <<"N", "E", "W", "_", "R", "E", "L", "I", "C">>,
     <<"C", "L", "I", "C", "K", "U", "P">>,
     <<"M", "O", "N", "D", "A", "Y">>,
     <<"N", "O", "T", "I", "O", "N">>,
     <<"B", "R", "A", "I", "N", "T", "R", "E", "E">>,
     <<"C", "H", "A", "R", "G", "E", "B", "E", "E">>,
     <<"R", "E", "C", "U", "R", "L", "Y">>,
     <<"Q", "U", "I", "C", "K", "B", "O", "O", "K", "S">>,
     <<"X", "E", "R", "O">>,
     <<"N", "E", "T", "S", "U", "I", "T", "E">>,
     <<"Z", "U", "O", "R", "A">>,
     <<"S", "Q", "U", "A", "R", "E">>,
     <<"P", "A", "Y", "P", "A", "L">>,
     <<"G", "O", "O", "G", "L", "E", "_", "A", "N", "A", "L", "Y", "T", "I", "C", "S">>,
     <<"G", "O", "O", "G", "L", "E", "_", "A", "N", "A", "L", "Y", "T", "I", "C", "S", "_", "4">>,
     <<"F", "A", "C", "E", "B", "O", "O", "K", "_", "I", "N", "S", "I", "G", "H", "T", "S">>,
     <<"I", "N", "S", "T", "A", "G", "R", "A", "M", "_", "I", "N", "S", "I", "G", "H", "T", "S">>,
     <<"Y", "O", "U", "T", "U", "B", "E", "_", "A", "N", "A", "L", "Y", "T", "I", "C", "S">>,
     <<"L", "I", "N", "K", "E", "D", "I", "N", "_", "P", "A", "G", "E", "S">>,
     <<"T", "W", "I", "T", "T", "E", "R", "_", "A", "N", "A", "L", "Y", "T", "I", "C", "S">>,
     <<"A", "P", "P", "S", "F", "L", "Y", "E", "R">>,
     <<"A", "D", "J", "U", "S", "T">>,
     <<"B", "R", "A", "N", "C", "H">>,
     <<"S", "3">>,
     <<"G", "C", "S">>,
     <<"A", "Z", "U", "R", "E", "_", "B", "L", "O", "B">>,
     <<"S", "F", "T", "P">>,
     <<"F", "T", "P">>,
     <<"G", "O", "O", "G", "L", "E", "_", "S", "H", "E", "E", "T", "S">>,
     <<"G", "O", "O", "G", "L", "E", "_", "D", "R", "I", "V", "E">>,
     <<"D", "R", "O", "P", "B", "O", "X">>,
     <<"B", "O", "X">>,
     <<"O", "N", "E", "D", "R", "I", "V", "E">>,
     <<"K", "A", "F", "K", "A">>,
     <<"W", "E", "B", "H", "O", "O", "K", "S">>,
     <<"R", "E", "S", "T", "_", "A", "P", "I">>,
     <<"A", "N", "D", "R", "O", "I", "D", "_", "S", "D", "K">>,
     <<"I", "O", "S", "_", "S", "D", "K">>,
     <<"J", "A", "V", "A", "S", "C", "R", "I", "P", "T", "_", "S", "D", "K">>,
     <<"K", "I", "N", "E", "S", "I", "S">>,
     <<"P", "U", "B", "S", "U", "B">>,
     <<"W", "O", "R", "K", "D", "A", "Y">>,
     <<"B", "A", "M", "B", "O", "O", "H", "R">>,
     <<"G", "R", "E", "E", "N", "H", "O", "U", "S", "E">>,
     <<"L", "E", "V", "E", "R">>,
     <<"N", "A", "M", "E", "L", "Y">>,
     <<"G", "U", "S", "T", "O">>,
     <<"S", "L", "A", "C", "K">>,
     <<"Z", "O", "O", "M">>,
     <<"M", "I", "C", "R", "O", "S", "O", "F", "T", "_", "T", "E", "A", "M", "S">>}

DESTINATIONS ==
    {<<"S", "N", "O", "W", "F", "L", "A", "K", "E">>,
     <<"B", "I", "G", "Q", "U", "E", "R", "Y">>,
     <<"R", "E", "D", "S", "H", "I", "F", "T">>,
     <<"D", "A", "T", "A", "B", "R", "I", "C", "K", "S">>,
     <<"P", "O", "S", "T", "G", "R", "E", "S">>,
     <<"M", "Y", "S", "Q", "L">>,
     <<"A", "U", "R", "O", "R", "A">>,
     <<"M", "S", "_", "S", "Q", "L">>,
     <<"A", "Z", "U", "R", "E", "_", "S", "Y", "N", "A", "P", "S", "E">>,
     <<"S", "3">>,
     <<"G", "C", "S">>,
     <<"F", "I", "R", "E", "B", "O", "L", "T">>,
     <<"C", "L", "I", "C", "K", "H", "O", "U", "S", "E">>}

BIDIRECTIONAL ==
    {<<"P", "O", "S", "T", "G", "R", "E", "S">>,
     <<"M", "Y", "S", "Q", "L">>,
     <<"R", "E", "D", "S", "H", "I", "F", "T">>,
     <<"B", "I", "G", "Q", "U", "E", "R", "Y">>,
     <<"S", "3">>,
     <<"G", "C", "S">>}

DESTINATION_ONLY == DESTINATIONS \ BIDIRECTIONAL

\* str.upper(), one character at a time
UpperChar(c) ==
    IF \E i \in 1..26 : LowerChars[i] = c
    THEN UpperChars[CHOOSE i \in 1..26 : LowerChars[i] = c]
    ELSE c

upper(t) == [i \in 1..Len(t) |-> UpperChar(t[i])]

\* the characters str.strip() removes and \s matches
WHITESPACE == {" ", "\t", "\n"}

RECURSIVE lstrip(_)
lstrip(t) ==
    IF t # <<>> /\ Head(t) \in WHITESPACE THEN lstrip(Tail(t)) ELSE t

RECURSIVE rstrip(_)
rstrip(t) ==
    IF t # <<>> /\ t[Len(t)] \in WHITESPACE
    THEN rstrip(SubSeq(t, 1, Len(t) - 1)) ELSE t

\* str.strip()
strip(t) == rstrip(lstrip(t))

\* str.replace(old, new) for one-character old and new
replace(t, old, new) == [i \in 1..Len(t) |-> IF t[i] = old THEN new ELSE t[i]]

normalize_connector_name(name) ==
    replace(replace(strip(upper(name)), " ", "_"), "-", "_")

Direction(ok, message) == [ok |-> ok, message |-> message]

\* validate_pipeline_direction without the test of the destination
validate_pipeline_direction_any_dest(source_type, destination_type) ==
    IF source_type = <<>> \/ destination_type = <<>>
    THEN Direction(FALSE, <<"Both source and destination types are required.">>)
    ELSE LET source_normalized == normalize_connector_name(source_type)
             dest_normalized == normalize_connector_name(destination_type)
         IN IF source_normalized \in DESTINATION_ONLY
            THEN Direction(FALSE,
                    source_type
                    \o <<" can only be used as a destination, not as a source. ",
                         "Hevo does not support ">>
                    \o source_type \o <<" as a data source.">>)
            ELSE IF source_normalized \notin SOURCES
            THEN Direction(FALSE,
                    source_type
                    \o <<" is not a supported source type. ",
                         "Please check the Hevo documentation for supported sources.">>)
            ELSE Direction(TRUE, <<"Valid pipeline configuration.">>)

validate_pipeline_direction(source_type, destination_type) ==
    IF source_type = <<>> \/ destination_type = <<>>
    THEN Direction(FALSE, <<"Both source and destination types are required.">>)
    ELSE LET source_normalized == normalize_connector_name(source_type)
             dest_normalized == normalize_connector_name(destination_type)
         IN IF source_normalized \in DESTINATION_ONLY
            THEN Direction(FALSE,
                    source_type
                    \o <<" can only be used as a destination, not as a source. ",
                         "Hevo does not support ">>
                    \o source_type \o <<" as a data source.">>)
            ELSE IF source_normalized \notin SOURCES
            THEN Direction(FALSE,
                    source_type
                    \o <<" is not a supported source type. ",
                         "Please check the Hevo documentation for supported sources.">>)
            ELSE IF dest_normalized \notin DESTINATIONS
            THEN Direction(FALSE,
                    destination_type
                    \o <<" is not a supported destination type. ",
                         "Supported destinations: ",
                         "AURORA, AZURE_SYNAPSE, BIGQUERY, CLICKHOUSE, DATABRICKS",
                         "...">>)
            ELSE Direction(TRUE, <<"Valid pipeline configuration.">>)

\* connector names as a caller writes them: one or two words, the words
\* joined by a separator, with or without blanks around
W_MYSQL == <<"M", "Y", "S", "Q", "L">>
W_SNOWFLAKE == <<"S", "N", "O", "W", "F", "L", "A", "K", "E">>
W_BIGQUERY == <<"B", "I", "G", "Q", "U", "E", "R", "Y">>
W_Google == <<"G", "o", "o", "g", "l", "e">>
W_ads == <<"a", "d", "s">>
W_azure == <<"a", "z", "u", "r", "e">>
W_Synapse == <<"S", "y", "n", "a", "p", "s", "e">>

Separators == {" ", "-", "\t"}

Written(words) ==
    LET bare == words \cup {w1 \o <<s>> \o w2 :
                               w1 \in words, s \in Separators, w2 \in words}
    IN bare \cup {<<" ">> \o n \o <<" ">> : n \in bare} \cup {<<>>, <<" ">>}

SourceNames == Written({W_MYSQL, W_SNOWFLAKE, W_Google, W_ads, W_azure, W_Synapse})
DestinationNames == Written({W_SNOWFLAKE, W_BIGQUERY, W_azure, W_Synapse})

InitDirection ==
    /\ pc = "direction"
    /\ arg \in {[fn |-> "validate_pipeline_direction", source_type |-> s,
                 destination_type |-> d] :
                   s \in SourceNames, d \in DestinationNames}
    /\ ret = Unset
    /\ user_input = NoneText
    /\ history = <<>>
    /\ appended = <<>>
    /\ WorldIdle
    /\ response = Unset
    /\ directive = NoDirective
    /\ validation = NoValidation
    /\ outcome = NoOutcome
    /\ result = Unset
    /\ reply = NoneText
    /\ executeCalls = 0

ValidateDirection ==
    /\ pc = "direction"
    /\ ret' = Ret(validate_pipeline_direction(arg.source_type, arg.destination_type))
    /\ pc' = "direction_done"
    /\ UNCHANGED <<response, directive, validation, outcome, result, reply,
                   executeCalls, arg, user_input, history, appended>>
    /\ UNCHANGED world

SpecDirection == InitDirection /\ [][ValidateDirection]_vars

----------------------------------------------------------------------------
(* domain/capabilities.py: the parameters of the registry's actions, and   *)
(* agent/validator.py: RequestValidator.validate_action                    *)

\* the Parameter dataclass: the fields the validation reads
Parameter(name, required) == [name |-> name, required |-> required]

\* ActionDefinition.parameters of every entry of the registry
PARAMETERS ==
    [a \in CAPABILITIES |->
        CASE a = "list_pipelines" ->
                <<Parameter("status", FALSE)>>
          [] a = "get_pipeline" ->
                <<Parameter("name", FALSE), Parameter("id", FALSE)>>
          [] a = "create_pipeline" ->
                <<Parameter("source_type", TRUE), Parameter("source_config", TRUE),
                  Parameter("destination_id", TRUE), Parameter("name", FALSE)>>
          [] a = "delete_pipeline" ->
                <<Parameter("id", TRUE), Parameter("name", FALSE),
                  Parameter("confirmed", TRUE)>>
          [] a = "pause_pipeline" ->
                <<Parameter("name", FALSE), Parameter("id", FALSE)>>
          [] a = "resume_pipeline" ->
                <<Parameter("name", FALSE), Parameter("id", FALSE)>>
          [] a = "run_pipeline" ->
                <<Parameter("name", FALSE), Parameter("id", FALSE)>>
          [] a = "update_pipeline_schedule" ->
                <<Parameter("id", FALSE), Parameter("name", FALSE),
                  Parameter("schedule", TRUE)>>
          [] a = "update_pipeline_priority" ->
                <<Parameter("id", FALSE), Parameter("name", FALSE),
                  Parameter("priority", TRUE)>>
          [] a = "get_pipeline_schedule" ->
                <<Parameter("id", FALSE), Parameter("name", FALSE)>>
          [] a = "list_objects" ->
                <<Parameter("pipeline_name", FALSE), Parameter("pipeline_id", FALSE)>>
          [] a = "pause_object" ->
                <<Parameter("pipeline_id", TRUE), Parameter("object_name", TRUE)>>
          [] a = "resume_object" ->
                <<Parameter("pipeline_id", TRUE), Parameter("object_name", TRUE)>>
          [] a = "skip_object" ->
                <<Parameter("pipeline_id", TRUE), Parameter("object_name", TRUE)>>
          [] a = "include_object" ->
                <<Parameter("pipeline_id", TRUE), Parameter("object_name", TRUE)>>
          [] a = "get_object" ->
                <<Parameter("pipeline_id", TRUE), Parameter("object_name", TRUE)>>
          [] a = "restart_object" ->
                <<Parameter("pipeline_id", TRUE), Parameter("object_name", TRUE)>>
          [] a = "get_transformation" ->
                <<Parameter("pipeline_id", TRUE), Parameter("pipeline_name", FALSE)>>
          [] a = "update_transformation" ->
                <<Parameter("pipeline_id", TRUE), Parameter("code", TRUE)>>
          [] a = "test_transformation" ->
                <<Parameter("pipeline_id", TRUE), Parameter("sample_data", FALSE)>>
          [] a = "get_schema_mapping" ->
                <<Parameter("pipeline_id", TRUE), Parameter("event_type", TRUE)>>
          [] a = "update_schema_mapping" ->
                <<Parameter("pipeline_id", TRUE), Parameter("event_type", TRUE),
                  Parameter("mapping", TRUE)>>
          [] a = "update_auto_mapping" ->
                <<Parameter("pipeline_id", TRUE), Parameter("enabled", TRUE)>>
          [] a = "list_event_types" ->
                <<Parameter("pipeline_id", TRUE), Parameter("pipeline_name", FALSE)>>
          [] a = "skip_event_type" ->
                <<Parameter("pipeline_id", TRUE), Parameter("event_type", TRUE)>>
          [] a = "include_event_type" ->
                <<Parameter("pipeline_id", TRUE), Parameter("event_type", TRUE)>>
          [] a = "list_destinations" ->
                <<>>
          [] a = "get_destination" ->
                <<Parameter("id", FALSE), Parameter("name", FALSE)>>
          [] a = "create_destination" ->
                <<Parameter("type", TRUE), Parameter("name", TRUE),
                  Parameter("config", TRUE)>>
          [] a = "get_destination_stats" ->
                <<Parameter("destination_id", TRUE), Parameter("table_name", TRUE)>>
          [] a = "load_destination" ->
                <<Parameter("destination_id", TRUE)>>
          [] a = "list_models" ->
                <<>>
          [] a = "get_model" ->
                <<Parameter("id", FALSE), Parameter("name", FALSE)>>
          [] a = "create_model" ->
                <<Parameter("destination_id", TRUE), Parameter("query", TRUE),
                  Parameter("name", TRUE), Parameter("target_table", FALSE),
                  Parameter("load_type", FALSE)>>
          [] a = "update_model" ->
                <<Parameter("id", FALSE), Parameter("name", FALSE),
                  Parameter("new_name", FALSE), Parameter("query", FALSE),
                  Parameter("target_table", FALSE)>>
          [] a = "delete_model" ->
                <<Parameter("id", FALSE), Parameter("name", FALSE),
                  Parameter("confirmed", TRUE)>>
          [] a = "pause_model" ->
                <<Parameter("id", FALSE), Parameter("name", FALSE)>>
          [] a = "resume_model" ->
                <<Parameter("id", FALSE), Parameter("name", FALSE)>>
          [] a = "run_model" ->
                <<Parameter("name", FALSE), Parameter("id", FALSE)>>
          [] a = "reset_model" ->
                <<Parameter("id", FALSE), Parameter("name", FALSE),
                  Parameter("confirmed", TRUE)>>
          [] a = "list_workflows" ->
                <<>>
          [] a = "get_workflow" ->
                <<Parameter("id", FALSE), Parameter("name", FALSE)>>
          [] a = "run_workflow" ->
                <<Parameter("name", FALSE), Parameter("id", FALSE)>>
          [] a = "list_users" ->
                <<>>
          [] a = "invite_user" ->
                <<Parameter("email", TRUE), Parameter("role", FALSE)>>
          [] a = "update_user_role" ->
                <<Parameter("user_id", TRUE), Parameter("role", TRUE)>>
          [] a = "delete_user" ->
                <<Parameter("user_id", TRUE), Parameter("confirmed", TRUE)>>
          [] a = "list_oauth_accounts" ->
                <<>>
          [] a = "get_oauth_account" ->
                <<Parameter("id", TRUE)>>
          [] a = "remove_oauth_account" ->
                <<Parameter("id", TRUE), Parameter("confirmed", TRUE)>>]

\* ActionDefinition.implemented: no entry of the registry sets it to False
IMPLEMENTED == [a \in CAPABILITIES |-> TRUE]

get_missing_prerequisites(action_name, provided_params) ==
    IF action_name \notin CAPABILITIES THEN <<>>
    ELSE LET has_alternative(param) ==
                 /\ param.name \in {"name", "id"}
                 /\ (IF param.name = "name" THEN "id" ELSE "name")
                       \in DOMAIN provided_params
             missing(param) ==
                 /\ param.required
                 /\ param.name \notin DOMAIN provided_params
                 /\ ~has_alternative(param)
         IN SelectSeq(PARAMETERS[action_name], missing)

Validation(is_valid, error_message, missing) ==
    [is_valid |-> is_valid, error_message |-> error_message, missing |-> missing]

\* ', '.join(sorted(CAPABILITIES.keys())[:5])
SAMPLE_ACTIONS ==
    <<"create_destination, create_model, create_pipeline, delete_model, delete_pipeline">>

\* params.get(key, "")
GetText(params, key) == IF key \in DOMAIN params THEN params[key] ELSE <<>>

\* validate_action without the special validation of create_pipeline
validate_action_no_direction(action_name, params) ==
    IF action_name \notin CAPABILITIES
    THEN Validation(FALSE,
            <<"Unknown action '", action_name, "'. Some available actions: ">>
            \o SAMPLE_ACTIONS \o <<"...">>,
            <<>>)
    ELSE IF ~IMPLEMENTED[action_name]
    THEN Validation(FALSE,
            <<"The '", action_name, "' action is not yet available via the API. ",
              "This feature is coming soon!">>,
            <<>>)
    ELSE LET missing == get_missing_prerequisites(action_name, params) IN
         IF missing # <<>> THEN Validation(FALSE, NoneText, missing)
         ELSE Validation(TRUE, NoneText, <<>>)

validate_action(action_name, params) ==
    IF action_name \notin CAPABILITIES
    THEN Validation(FALSE,
            <<"Unknown action '", action_name, "'. Some available actions: ">>
            \o SAMPLE_ACTIONS \o <<"...">>,
            <<>>)
    ELSE IF ~IMPLEMENTED[action_name]
    THEN Validation(FALSE,
            <<"The '", action_name, "' action is not yet available via the API. ",
              "This feature is coming soon!">>,
            <<>>)
    ELSE LET missing == get_missing_prerequisites(action_name, params) IN
         IF missing # <<>> THEN Validation(FALSE, NoneText, missing)
         ELSE LET source == GetText(params, "source_type")
                  dest == GetText(params, "destination_type")
                  direction == validate_pipeline_direction(source, dest)
              IN IF /\ action_name = "create_pipeline"
                    /\ source # <<>> /\ dest # <<>>
                    /\ ~direction.ok
                 THEN Validation(FALSE, direction.message, <<>>)
                 ELSE Validation(TRUE, NoneText, <<>>)

\* the parameter names an action declares
Declared(action_name) ==
    IF action_name \in CAPABILITIES
    THEN {PARAMETERS[action_name][i].name : i \in 1..Len(PARAMETERS[action_name])}
    ELSE {}

\* the values a caller gives a key
ValuesOf(key) ==
    CASE key = "source_type" -> {<<>>, W_MYSQL, W_SNOWFLAKE}
      [] key = "destination_type" -> {<<>>, W_SNOWFLAKE, W_BIGQUERY, W_Google}
      [] key \in {"name", "id"} -> {<<>>, <<"X">>}
      [] OTHER -> {<<"X">>}

Extend(f, key, value) ==
    [k \in DOMAIN f \cup {key} |-> IF k = key THEN value ELSE f[k]]

\* every mapping over every subset of keys
RECURSIVE MapsOver(_)
MapsOver(keys) ==
    IF keys = {} THEN {EmptyMap}
    ELSE LET key == CHOOSE k \in keys : TRUE
             rest == MapsOver(keys \ {key})
         IN rest \cup {Extend(f, key, v) : f \in rest, v \in ValuesOf(key)}

\* the keys a caller may send with an action: the declared ones, "name" and
\* "id", and for create_pipeline the destination_type of the special check
KeysFor(action_name) ==
    Declared(action_name) \cup {"name", "id"}
    \cup (IF action_name = "create_pipeline" THEN {"destination_type"} ELSE {})

ValidatorActions == CAPABILITIES \cup {"update_destination", "nonexistent_action", ""}

ValidatorCalls ==
    UNION {{[fn |-> "validate_action", action_name |-> a, params |-> p] :
               p \in MapsOver(KeysFor(a))} : a \in ValidatorActions}

InitValidator ==
    /\ pc = "call"
    /\ arg \in ValidatorCalls
    /\ ret = Unset
    /\ user_input = NoneText
    /\ history = <<>>
    /\ appended = <<>>
    /\ WorldIdle
    /\ response = Unset
    /\ directive = NoDirective
    /\ validation = NoValidation
    /\ outcome = NoOutcome
    /\ result = Unset
    /\ reply = NoneText
    /\ executeCalls = 0

\* get_missing_prerequisites(action_name, provided_params)
GetMissing ==
    /\ pc = "call"
    /\ ret' = Ret(get_missing_prerequisites(arg.action_name, arg.params))
    /\ pc' = "missing_done"
    /\ UNCHANGED <<response, directive, validation, outcome, result, reply,
                   executeCalls, arg, user_input, history, appended>>
    /\ UNCHANGED world

\* RequestValidator.validate_action(action_name, params)
ValidateAction ==
    /\ pc = "call"
    /\ ret' = Ret(validate_action(arg.action_name, arg.params))
    /\ pc' = "validate_action_done"
    /\ UNCHANGED <<response, directive, validation, outcome, result, reply,
                   executeCalls, arg, user_input, history, appended>>
    /\ UNCHANGED world

NextValidator == GetMissing \/ ValidateAction

SpecValidator == InitValidator /\ [][NextValidator]_vars

----------------------------------------------------------------------------
(* agent/validator.py: UNSUPPORTED_PATTERNS and check_unsupported.  A      *)
(* regular expression is a tree; Ends gives the positions at which a match *)
(* that starts at position i can end, re_search is re.search.              *)

Lit(chars) == [kind |-> "lit", chars |-> chars, of |-> <<>>, max |-> 0]
Alt(of) == [kind |-> "alt", chars |-> <<>>, of |-> of, max |-> 0]
Cat(of) == [kind |-> "cat", chars |-> <<>>, of |-> of, max |-> 0]
Opt(re) == [kind |-> "opt", chars |-> <<>>, of |-> <<re>>, max |-> 0]
Spaces == [kind |-> "spaces", chars |-> <<>>, of |-> <<>>, max |-> 0]
WordBoundary == [kind |-> "wordb", chars |-> <<>>, of |-> <<>>, max |-> 0]
AnyUpTo(max) == [kind |-> "any", chars |-> <<>>, of |-> <<>>, max |-> max]

\* the characters \w matches
WordChars ==
    {LowerChars[i] : i \in 1..26} \cup {UpperChars[i] : i \in 1..26}
    \cup {"0", "1", "2", "3", "4", "5", "6", "7", "8", "9", "_"}

IsWordAt(t, k) == k \in 1..Len(t) /\ t[k] \in WordChars

RECURSIVE Ends(_, _, _)
RECURSIVE EndsAll(_, _, _)

\* the end positions of the concatenation of res, started at any of starts
EndsAll(res, t, starts) ==
    IF res = <<>> THEN starts
    ELSE EndsAll(Tail(res), t, UNION {Ends(Head(res), t, i) : i \in starts})

\* matching ignores case (re.IGNORECASE)
Ends(re, t, i) ==
    CASE re.kind = "lit" ->
            IF /\ i + Len(re.chars) - 1 <= Len(t)
               /\ \A k \in 1..Len(re.chars) :
                     LowerChar(t[i + k - 1]) = LowerChar(re.chars[k])
            THEN {i + Len(re.chars)} ELSE {}
      [] re.kind = "alt" -> UNION {Ends(re.of[k], t, i) : k \in 1..Len(re.of)}
      [] re.kind = "cat" -> EndsAll(re.of, t, {i})
      [] re.kind = "opt" -> {i} \cup Ends(re.of[1], t, i)
      [] re.kind = "spaces" ->
            {j \in (i + 1)..(Len(t) + 1) : \A k \in i..(j - 1) : t[k] \in WHITESPACE}
      [] re.kind = "wordb" ->
            IF IsWordAt(t, i - 1) # IsWordAt(t, i) THEN {i} ELSE {}
      [] re.kind = "any" ->
            {j \in i..Min(i + re.max, Len(t) + 1) : \A k \in i..(j - 1) : t[k] # "\n"}

\* re.search(pattern, text) finds a match
re_search(re, t) == \E i \in 1..(Len(t) + 1) : Ends(re, t, i) # {}

\* the literal words of the patterns
WORD ==
    [delete |-> <<"d", "e", "l", "e", "t", "e">>,
     remove |-> <<"r", "e", "m", "o", "v", "e">>,
     my |-> <<"m", "y">>,
     destination |-> <<"d", "e", "s", "t", "i", "n", "a", "t", "i", "o", "n">>,
     change |-> <<"c", "h", "a", "n", "g", "e">>,
     update |-> <<"u", "p", "d", "a", "t", "e">>,
     reset |-> <<"r", "e", "s", "e", "t">>,
     password |-> <<"p", "a", "s", "s", "w", "o", "r", "d">>,
     billing |-> <<"b", "i", "l", "l", "i", "n", "g">>,
     invoice |-> <<"i", "n", "v", "o", "i", "c", "e">>,
     payment |-> <<"p", "a", "y", "m", "e", "n", "t">>,
     subscription |-> <<"s", "u", "b", "s", "c", "r", "i", "p", "t", "i", "o", "n">>,
     plan |-> <<"p", "l", "a", "n">>,
     export |-> <<"e", "x", "p", "o", "r", "t">>,
     download |-> <<"d", "o", "w", "n", "l", "o", "a", "d">>,
     data |-> <<"d", "a", "t", "a">>,
     snowflake |-> <<"s", "n", "o", "w", "f", "l", "a", "k", "e">>,
     as |-> <<"a", "s">>,
     source |-> <<"s", "o", "u", "r", "c", "e">>,
     from |-> <<"f", "r", "o", "m">>,
     databricks |-> <<"d", "a", "t", "a", "b", "r", "i", "c", "k", "s">>]

\* (my\s+)?
OptMy == Opt(Cat(<<Lit(WORD.my), Spaces>>))

UNSUPPORTED_PATTERNS ==
    <<[pattern |-> Cat(<<WordBoundary, Alt(<<Lit(WORD.delete), Lit(WORD.remove)>>),
                         Spaces, OptMy, Lit(WORD.destination)>>),
       message |-> <<"Deleting destinations is not available via the API for safety reasons. ",
                     "Please use the Hevo dashboard to delete destinations.">>],
      [pattern |-> Cat(<<WordBoundary,
                         Alt(<<Lit(WORD.change), Lit(WORD.update), Lit(WORD.reset)>>),
                         Spaces, OptMy, Lit(WORD.password)>>),
       message |-> <<"Password changes are not supported via the API. ",
                     "Please use the Hevo dashboard or the password reset feature.">>],
      [pattern |-> Cat(<<WordBoundary,
                         Alt(<<Lit(WORD.billing), Lit(WORD.invoice), Lit(WORD.payment),
                               Lit(WORD.subscription), Lit(WORD.plan)>>)>>),
       message |-> <<"Billing and subscription management is not available via the API. ",
                     "Please visit the Hevo dashboard or contact support.">>],
      [pattern |-> Cat(<<WordBoundary, Alt(<<Lit(WORD.export), Lit(WORD.download)>>),
                         Spaces, OptMy, Lit(WORD.data)>>),
       message |-> <<"Direct data export is not supported. Your data is synced to your ",
                     "destination where you can query it directly.">>],
      [pattern |-> Cat(<<WordBoundary, Lit(WORD.snowflake), WordBoundary, AnyUpTo(20),
                         WordBoundary, Opt(Cat(<<Lit(WORD.as), Spaces>>)),
                         Lit(WORD.source), WordBoundary>>),
       message |-> <<"Snowflake cannot be used as a data source. ",
                     "It's only supported as a destination. ",
                     "Check docs.hevodata.com for supported source connectors.">>],
      [pattern |-> Cat(<<WordBoundary, Lit(WORD.from), Spaces, Lit(WORD.snowflake),
                         WordBoundary>>),
       message |-> <<"Snowflake cannot be used as a source connector. ",
                     "Hevo supports Snowflake only as a destination.">>],
      [pattern |-> Cat(<<WordBoundary, Lit(WORD.databricks), WordBoundary, AnyUpTo(20),
                         WordBoundary, Opt(Cat(<<Lit(WORD.as), Spaces>>)),
                         Lit(WORD.source), WordBoundary>>),
       message |-> <<"Databricks cannot be used as a data source. ",
                     "It's only supported as a destination.">>]>>

\* the loop of check_unsupported from pattern k on
RECURSIVE first_match(_, _)
first_match(k, query_lower) ==
    IF k > Len(UNSUPPORTED_PATTERNS) THEN NoneText
    ELSE IF re_search(UNSUPPORTED_PATTERNS[k].pattern, query_lower)
    THEN UNSUPPORTED_PATTERNS[k].message
    ELSE first_match(k + 1, query_lower)

\* the loop going on after a match, so that the last match wins
RECURSIVE last_match(_, _, _)
last_match(k, query_lower, found) ==
    IF k > Len(UNSUPPORTED_PATTERNS) THEN found
    ELSE IF re_search(UNSUPPORTED_PATTERNS[k].pattern, query_lower)
    THEN last_match(k + 1, query_lower, UNSUPPORTED_PATTERNS[k].message)
    ELSE last_match(k + 1, query_lower, found)

check_unsupported_last_match(query) == last_match(1, lower(query), NoneText)

check_unsupported(query) == first_match(1, lower(query))

MaxPhrases == 2     \* phrases per query

Q_please ==
    <<"p", "l", "e", "a", "s", "e">>
Q_delete_my_destination ==
    <<"d", "e", "l", "e", "t", "e", " ", "m", "y", " ", "d", "e", "s", "t",
      "i", "n", "a", "t", "i", "o", "n">>
Q_REMOVE_destination ==
    <<"R", "E", "M", "O", "V", "E", " ", " ", "d", "e", "s", "t", "i", "n",
      "a", "t", "i", "o", "n">>
Q_list_my_pipelines ==
    <<"l", "i", "s", "t", " ", "m", "y", " ", "p", "i", "p", "e", "l", "i",
      "n", "e", "s">>
Q_billing ==
    <<"b", "i", "l", "l", "i", "n", "g">>
Q_from_snowflake ==
    <<"f", "r", "o", "m", " ", "s", "n", "o", "w", "f", "l", "a", "k", "e">>
Q_as_source ==
    <<"a", "s", " ", "s", "o", "u", "r", "c", "e">>
Q_Snowflake ==
    <<"S", "n", "o", "w", "f", "l", "a", "k", "e">>
Q_undelete_destination ==
    <<"u", "n", "d", "e", "l", "e", "t", "e", " ", "d", "e", "s", "t", "i",
      "n", "a", "t", "i", "o", "n">>
Q_reset_my_password ==
    <<"r", "e", "s", "e", "t", "\t", "m", "y", " ", "p", "a", "s", "s", "w",
      "o", "r", "d">>
Q_export_data ==
    <<"e", "x", "p", "o", "r", "t", " ", "d", "a", "t", "a">>
Q_airplane ==
    <<"a", "i", "r", "p", "l", "a", "n", "e">>
Q_planning ==
    <<"p", "l", "a", "n", "n", "i", "n", "g">>
Q_databricks ==
    <<"d", "a", "t", "a", "b", "r", "i", "c", "k", "s">>
Q_snowflake_far_source ==
    <<"s", "n", "o", "w", "f", "l", "a", "k", "e", " ", "i", "s", " ", "w",
      "h", "a", "t", " ", "I", " ", "w", "o", "u", "l", "d", " ", "r", "e",
      "a", "l", "l", "y", " ", "l", "i", "k", "e", " ", "a", "s", " ", "s",
      "o", "u", "r", "c", "e">>

Phrases ==
    {Q_please, Q_delete_my_destination, Q_REMOVE_destination,
     Q_list_my_pipelines, Q_billing, Q_from_snowflake, Q_as_source,
     Q_Snowflake, Q_undelete_destination, Q_reset_my_password,
     Q_export_data, Q_airplane, Q_planning, Q_databricks,
     Q_snowflake_far_source}

\* the phrases of ps joined by single blanks
RECURSIVE Spoken(_)
Spoken(ps) ==
    IF ps = <<>> THEN <<>>
    ELSE IF Len(ps) = 1 THEN Head(ps)
    ELSE Head(ps) \o <<" ">> \o Spoken(Tail(ps))

Queries == {Spoken(ps) : ps \in UNION {[1..n -> Phrases] : n \in 0..MaxPhrases}}

InitUnsupported ==
    /\ pc = "query"
    /\ arg \in {[fn |-> "check_unsupported", query |-> q] : q \in Queries}
    /\ ret = Unset
    /\ user_input = NoneText
    /\ history = <<>>
    /\ appended = <<>>
    /\ WorldIdle
    /\ response = Unset
    /\ directive = NoDirective
    /\ validation = NoValidation
    /\ outcome = NoOutcome
    /\ result = Unset
    /\ reply = NoneText
    /\ executeCalls = 0

\* RequestValidator.check_unsupported(query)
CheckUnsupported ==
    /\ pc = "query"
    /\ ret' = Ret(check_unsupported(arg.query))
    /\ pc' = "query_done"
    /\ UNCHANGED <<response, directive, validation, outcome, result, reply,
                   executeCalls, arg, user_input, history, appended>>
    /\ UNCHANGED world

SpecUnsupported == InitUnsupported /\ [][CheckUnsupported]_vars

----------------------------------------------------------------------------
(* cli.py: the chat loop and _process_query_multiagent (agents enabled)    *)

\* AgentOrchestrator.process after the Coordinator returned directive d;
\* out is what the dispatched handler does
Orchestrator_respond(d, out) ==
    IF d.directive_type \in {"clarify", "unsupported", "info_only"}
    THEN Ret(branch_reply(d))
    ELSE LET v == validate_directive(d) IN
         IF ~v.ok THEN Ret(P_COULD_NOT_EXECUTE \o v.error)
         ELSE LET r == execute(d, IF ExecuteDispatches(d) THEN out ELSE NoOutcome)
              IN IF r.raised THEN r ELSE Ret(_format_response(d, r.val))

P_ERROR_PROCESSING == <<"Error processing query: ">>

\* llm/base.py get_llm, which CoordinatorAgent() calls on the session's
\* configuration: the client, or ValueError for an unknown provider
get_llm(provider) ==
    IF provider \in {"openai", "anthropic", "ollama"} THEN Ret(<<>>)
    ELSE Raise("ValueError",
               <<"Unsupported LLM provider: ", provider,
                 ". Supported: openai, anthropic, ollama">>)

\* _process_query_multiagent from the try block on; processed is what
\* AgentOrchestrator().process did, shown what formatter.display did and
\* printed what formatter.format_error did
_process_query_multiagent(processed, shown, printed) ==
    LET r == IF ~processed.raised /\ shown.raised THEN shown ELSE processed
    IN IF r.raised /\ IsInstance(r.cls, "Exception")
       THEN IF printed.raised THEN printed
            ELSE Ret(P_ERROR_PROCESSING \o r.msg)
       ELSE r

HISTORY_LIMIT == 20

Entry(role, content) == [role |-> role, content |-> content]

\* conversation_history[-n:]
LastN(h, n) == IF Len(h) > n THEN SubSeq(h, Len(h) - n + 1, Len(h)) ELSE h

\* the truncation keeping the oldest entries
truncate_keep_oldest(h) ==
    IF Len(h) > HISTORY_LIMIT THEN SubSeq(h, 1, HISTORY_LIMIT) ELSE h

\* cli.py:489-490
truncate(h) == IF Len(h) > HISTORY_LIMIT THEN LastN(h, HISTORY_LIMIT) ELSE h

\* cli.py:484-490: what the loop does with the response of a turn
record(h, input, resp) ==
    IF resp # <<>>
    THEN truncate(h \o <<Entry("user", input), Entry("assistant", resp)>>)
    ELSE h

MaxExchanges == 11     \* exchanges appended during a session

T_EXIT == <<"E", "x", "i", "t">>
T_HELLO == <<"h", "e", "l", "l", "o">>
T_BLANK == <<" ", " ">>

\* lines typed at the prompt
Lines == {<<>>, T_BLANK, T_EXIT, T_HELLO}

QUIT_WORDS == {<<"e", "x", "i", "t">>, <<"q", "u", "i", "t">>, <<"q">>}

\* what llm.chat does in a chat turn: an answer in prose, an empty
\* answer, a connection error
ChatAnswers ==
    {Ret(<<Prose(T_DONE)>>), Ret(<<>>), Raise("ConnectionError", T_TIMEOUT)}

\* the console takes the output, or fails on every write
Consoles == {Ret(<<>>), Raise("ConnectionError", <<>>)}

\* the configured LLM provider of a session
Configured == {"openai", "mistral"}

\* the locals of an iteration of the loop, dead between iterations
TurnIdle ==
    /\ user_input = NoneText
    /\ response = Unset
    /\ directive = NoDirective
    /\ reply = NoneText

InitChat ==
    /\ pc = "prompt"
    /\ history = <<>>
    /\ appended = <<>>
    /\ WorldIdle
    /\ TurnIdle
    /\ \E p \in Configured : arg = [fn |-> "chat", provider |-> p]
    /\ ret = Unset
    /\ validation = NoValidation
    /\ outcome = NoOutcome
    /\ result = Unset
    /\ executeCalls = 0

\* cli.py:470-477: a line is read; a blank line starts the loop again, a
\* quit word ends it
ChatPrompt ==
    /\ pc = "prompt"
    /\ Len(appended) < 2 * MaxExchanges
    /\ \E line \in Lines :
          IF strip(line) = <<>>
          THEN UNCHANGED <<pc, user_input>>
          ELSE IF lower(line) \in QUIT_WORDS
          THEN pc' = "exited" /\ UNCHANGED user_input
          ELSE pc' = "processing" /\ user_input' = line
    /\ UNCHANGED <<history, appended, response, directive, reply, validation,
                   outcome, result, executeCalls, arg, ret>>
    /\ UNCHANGED world

\* cli.py:492-494: KeyboardInterrupt at the prompt or while the query is
\* processed
ChatInterrupt ==
    /\ pc \in {"prompt", "processing"}
    /\ pc' = "exited"
    /\ response' = Raise("KeyboardInterrupt", <<>>)
    /\ UNCHANGED <<history, appended, user_input, directive, reply, validation,
                   outcome, result, executeCalls, arg, ret>>
    /\ UNCHANGED world

\* cli.py:72-80 with orchestrator.py:70-80: AgentOrchestrator() and the
\* Coordinator's call; a directive is left unset when the constructor raised
ChatCoordinate ==
    /\ pc = "processing"
    /\ pc' = "directed"
    /\ LET made == get_llm(arg.provider) IN
       IF made.raised
       THEN response' = made /\ directive' = NoDirective
       ELSE \E llm \in ChatAnswers :
               /\ response' = llm
               /\ directive' = Coordinator_process(llm).val
    /\ UNCHANGED <<history, appended, user_input, reply, validation, outcome,
                   result, executeCalls, arg, ret>>
    /\ UNCHANGED world

\* the rest of the iteration: orchestrator.py:82-107, cli.py:82-90 and
\* cli.py:484-490; the locals of the iteration end with it
ChatFinish ==
    /\ pc = "directed"
    /\ pc' = "prompt"
    /\ \E console \in Consoles :
          LET processed == IF directive = NoDirective THEN response
                           ELSE Orchestrator_respond(directive, outcome)
              r == _process_query_multiagent(processed, console, console)
          IN /\ history' = IF r.raised THEN history
                           ELSE record(history, user_input, r.val)
             /\ appended' = IF r.raised \/ r.val = <<>> THEN appended
                            ELSE appended \o <<Entry("user", user_input),
                                               Entry("assistant", r.val)>>
    /\ user_input' = NoneText
    /\ response' = Unset
    /\ directive' = NoDirective
    /\ reply' = NoneText
    /\ UNCHANGED <<validation, outcome, result, executeCalls, arg, ret>>
    /\ UNCHANGED world

NextChat == ChatPrompt \/ ChatInterrupt \/ ChatCoordinate \/ ChatFinish

SpecChat == InitChat /\ [][NextChat]_vars

----------------------------------------------------------------------------
(* AgentOrchestrator.process with the two name lists it fetches first, one *)
(* call after the other.  The chat loop constructs an AgentOrchestrator    *)
(* for every query (cli.py:74); a caller holding one object calls process  *)
(* and clear_cache on it.                                                  *)

\* dict.get(k) or ...: the value under k, "" when the key is absent
GetOr(p, k) == IF k \in DOMAIN p THEN p[k] ELSE ""

\* get_name of _get_available_pipelines
get_name(p) ==
    IF GetOr(p, "name") # "" THEN p["name"]
    ELSE IF GetOr(p, "pipeline_name") # "" THEN p["pipeline_name"]
    ELSE IF GetOr(p, "display_name") # "" THEN p["display_name"]
    ELSE ""

\* [f(x) for x in xs if f(x)] with f = get_name
RECURSIVE names_of(_)
names_of(ps) ==
    IF ps = <<>> THEN <<>>
    ELSE (IF get_name(Head(ps)) # "" THEN <<get_name(Head(ps))>> ELSE <<>>)
         \o names_of(Tail(ps))

\* _get_available_pipelines and _get_available_destinations keeping the
\* empty list of a failed fetch
fetch_caching_failure(cache, got) ==
    IF cache # NoneList THEN [cache |-> cache, value |-> cache, called |-> FALSE]
    ELSE IF got.raised /\ IsInstance(got.cls, "Exception")
    THEN [cache |-> <<>>, value |-> <<>>, called |-> TRUE]
    ELSE [cache |-> names_of(got.val), value |-> names_of(got.val), called |-> TRUE]

\* _get_available_pipelines and _get_available_destinations: the cache
\* afterwards, the list returned, and whether list_all was called; got is
\* what ops.list_all() does
fetch(cache, got) ==
    IF cache # NoneList THEN [cache |-> cache, value |-> cache, called |-> FALSE]
    ELSE IF got.raised /\ IsInstance(got.cls, "Exception")
    THEN [cache |-> NoneList, value |-> <<>>, called |-> TRUE]
    ELSE [cache |-> names_of(got.val), value |-> names_of(got.val), called |-> TRUE]

Call(kind, ok) == [kind |-> kind, ok |-> ok]

MaxTurns == 3     \* process calls in a session

\* what ops.list_all() does for pipelines (dicts) and for destinations
\* (objects with a name, read as their one field)
PipelineFetches ==
    {Ret(<<>>),
     Ret(<<[k \in {"name"} |-> "p1"], [k \in {"id"} |-> "7"],
           [k \in {"name", "display_name"} |-> IF k = "name" THEN "" ELSE "p2"]>>),
     Raise("APIError", T_TIMEOUT)}

DestinationFetches ==
    {Ret(<<>>),
     Ret(<<[k \in {"name"} |-> "d1"], [k \in {"name"} |-> ""]>>),
     Raise("ConnectionError", T_TIMEOUT)}

\* what llm.chat does in a turn: prose, a create_pipeline directive, an error
SessionAnswers ==
    {Ret(<<Prose(T_DONE)>>),
     Ret(<<Block("json_fence",
                 Body(TRUE, TRUE, ExecObj("execute", "create_pipeline", AbsentParams)))>>),
     Raise("ConnectionError", T_TIMEOUT)}

\* what the dispatched handler does
SessionOutcomes ==
    {Outcome("return", "", TRUE, <<"ok">>, NoData),
     Outcome("raise", "APIError", FALSE, F_PIPELINE_X \o C_ALREADY, NoData)}

Callers == {"cli", "library"}

InitSession ==
    /\ pc = "idle"
    /\ arg = [fn |-> "process", caller |-> "cli", turn |-> 0]
    /\ ret = Unset
    /\ response = Unset
    /\ directive = NoDirective
    /\ validation = NoValidation
    /\ outcome = NoOutcome
    /\ result = Unset
    /\ reply = NoneText
    /\ executeCalls = 0
    /\ user_input = NoneText
    /\ history = <<>>
    /\ appended = <<>>
    /\ WorldIdle

\* a process call begins; the chat loop's call is made on a new
\* AgentOrchestrator (cli.py:74, orchestrator.py:49-53)
BeginTurn ==
    /\ pc \in {"idle", "done"}
    /\ arg.turn < MaxTurns
    /\ \E caller \in Callers :
          /\ arg' = [fn |-> "process", caller |-> caller, turn |-> arg.turn + 1]
          /\ IF caller = "cli"
             THEN pipelines_cache' = NoneList /\ destinations_cache' = NoneList
             ELSE UNCHANGED <<pipelines_cache, destinations_cache>>
    /\ pc' = "fetch_pipelines"
    /\ calls' = <<>>
    /\ response' = Unset
    /\ directive' = NoDirective
    /\ outcome' = NoOutcome
    /\ reply' = NoneText
    /\ UNCHANGED <<validation, result, executeCalls, ret, user_input, history,
                   appended, fetches, requests, now>>

\* orchestrator.py:73: _get_available_pipelines()
FetchPipelines ==
    /\ pc = "fetch_pipelines"
    /\ pc' = "fetch_destinations"
    /\ \E got \in PipelineFetches :
          LET f == fetch(pipelines_cache, got) IN
          /\ pipelines_cache' = f.cache
          /\ calls' = IF f.called
                      THEN Append(calls, Call("list_pipelines", ~got.raised))
                      ELSE calls
          /\ fetches' = IF f.called /\ ~got.raised
                        THEN [fetches EXCEPT !.pipelines = @ + 1]
                        ELSE fetches
    /\ UNCHANGED <<response, directive, validation, outcome, result, reply,
                   executeCalls, arg, ret, user_input, history, appended,
                   destinations_cache, requests, now>>

\* orchestrator.py:74: _get_available_destinations()
FetchDestinations ==
    /\ pc = "fetch_destinations"
    /\ pc' = "coordinate"
    /\ \E got \in DestinationFetches :
          LET f == fetch(destinations_cache, got) IN
          /\ destinations_cache' = f.cache
          /\ calls' = IF f.called
                      THEN Append(calls, Call("list_destinations", ~got.raised))
                      ELSE calls
          /\ fetches' = IF f.called /\ ~got.raised
                        THEN [fetches EXCEPT !.destinations = @ + 1]
                        ELSE fetches
    /\ UNCHANGED <<response, directive, validation, outcome, result, reply,
                   executeCalls, arg, ret, user_input, history, appended,
                   pipelines_cache, requests, now>>

\* orchestrator.py:77-83: the Coordinator's one llm.chat call
SessionCoordinate ==
    /\ pc = "coordinate"
    /\ pc' = "respond"
    /\ \E llm \in SessionAnswers :
          /\ response' = llm
          /\ directive' = Coordinator_process(llm).val
          /\ calls' = Append(calls, Call("llm.chat", ~llm.raised))
    /\ UNCHANGED <<validation, outcome, result, reply, executeCalls, arg, ret,
                   user_input, history, appended, pipelines_cache,
                   destinations_cache, fetches, requests, now>>

\* orchestrator.py:85-104: the directive reaches agent_executor.execute and
\* from there the capability layer
Dispatches(d) ==
    /\ d.directive_type = "execute"
    /\ validate_directive(d).ok
    /\ ExecuteDispatches(d)

\* the Executor calling the handler again after a failure
Executor_calls_retrying(d, out) ==
    IF ~Dispatches(d) THEN <<>>
    ELSE IF out.kind = "return" THEN <<Call(d.action, TRUE)>>
    ELSE <<Call(d.action, FALSE), Call(d.action, FALSE)>>

\* the calls into the capability layer that executing d makes, the handler
\* doing out (executor.py:93-107: one handler call, no loop)
Executor_calls(d, out) ==
    IF Dispatches(d) THEN <<Call(d.action, out.kind = "return")>> ELSE <<>>

\* orchestrator.py:85-107: the branches, validate_directive, execute and
\* _format_response
SessionRespond ==
    /\ pc = "respond"
    /\ pc' = "done"
    /\ \E out \in SessionOutcomes :
          /\ outcome' = IF Dispatches(directive) THEN out ELSE NoOutcome
          /\ reply' = Orchestrator_respond(directive, outcome').val
          /\ calls' = calls \o Executor_calls(directive, out)
    /\ UNCHANGED <<response, directive, validation, result, executeCalls, arg,
                   ret, user_input, history, appended, pipelines_cache,
                   destinations_cache, fetches, requests, now>>

\* orchestrator.py:226-229: clear_cache() between two process calls
ClearCache ==
    /\ pc = "done"
    /\ arg.caller = "library"
    /\ pipelines_cache # NoneList \/ destinations_cache # NoneList
    /\ pipelines_cache' = NoneList
    /\ destinations_cache' = NoneList
    /\ fetches' = [pipelines |-> 0, destinations |-> 0]
    /\ UNCHANGED <<pc, response, directive, validation, outcome, result, reply,
                   executeCalls, arg, ret, user_input, history, appended, calls,
                   requests, now>>

NextSession ==
    \/ BeginTurn
    \/ FetchPipelines
    \/ FetchDestinations
    \/ SessionCoordinate
    \/ SessionRespond
    \/ ClearCache

SpecSession == InitSession /\ [][NextSession]_vars

----------------------------------------------------------------------------
(* HevoClient._request behind RateLimiter.wait_if_needed.  get_client()    *)
(* returns a new HevoClient, and each HevoClient constructs its own        *)
(* RateLimiter (client.py:89, 693-695): ActionExecutor holds one client    *)
(* and each operations object another (actions.py:102-107), and the        *)
(* Orchestrator's fetchers construct an operations object per fetch.       *)
(* The clock counts in units of 20 seconds and the quota is scaled with it. *)

MINUTE == 3                 \* the 60 of wait_if_needed, in clock units
requests_per_minute == 2    \* RateLimiter.__init__'s quota, scaled from 100

MaxClock == 5     \* the clock value up to which time passes between requests
MaxSends == 4     \* requests sent in a run

\* two of the HevoClient objects of one ActionExecutor: self.client and the
\* one of self.pipelines (actions.py:103-104, pipelines.py:76)
Clients == {"executor", "pipelines"}

\* [t for t in self.requests if now - t < 60]
recent(reqs, t) == SelectSeq(reqs, LAMBDA x : t - x < MINUTE)

\* RateLimiter.wait_if_needed on the list reqs at clock t: the list
\* afterwards, the time slept, and the clock when it returns
wait_if_needed(reqs, t) ==
    LET kept == recent(reqs, t)
        wait_time == IF Len(kept) >= requests_per_minute
                     THEN MINUTE - (t - kept[1])
                     ELSE 0
        slept == IF wait_time > 0 THEN wait_time ELSE 0
    IN [requests |-> Append(kept, t + slept), slept |-> slept, at |-> t + slept]

Send(client, at) == [kind |-> "request", client |-> client, at |-> at]

InitLimiter ==
    /\ pc = "idle"
    /\ arg = NoArg
    /\ ret = Unset
    /\ response = Unset
    /\ directive = NoDirective
    /\ validation = NoValidation
    /\ outcome = NoOutcome
    /\ result = Unset
    /\ reply = NoneText
    /\ executeCalls = 0
    /\ user_input = NoneText
    /\ history = <<>>
    /\ appended = <<>>
    /\ pipelines_cache = NoneList
    /\ destinations_cache = NoneList
    /\ fetches = [pipelines |-> 0, destinations |-> 0]
    /\ calls = <<>>
    /\ requests = [c \in Clients |-> <<>>]
    /\ now = 0

\* time passes between two requests
Tick ==
    /\ now < MaxClock
    /\ now' = now + 1
    /\ UNCHANGED <<pc, response, directive, validation, outcome, result, reply,
                   executeCalls, arg, ret, user_input, history, appended,
                   pipelines_cache, destinations_cache, calls, fetches, requests>>

\* client.py:104-137: _request on one client: wait_if_needed, then
\* session.request
Request ==
    /\ Len(calls) < MaxSends
    /\ \E c \in Clients :
          LET w == wait_if_needed(requests[c], now) IN
          /\ requests' = [requests EXCEPT ![c] = w.requests]
          /\ now' = w.at
          /\ calls' = Append(calls, Send(c, w.at))
          /\ arg' = [fn |-> "_request", client |-> c]
          /\ ret' = Ret(w.slept)
    /\ UNCHANGED <<pc, response, directive, validation, outcome, result, reply,
                   executeCalls, user_input, history, appended,
                   pipelines_cache, destinations_cache, fetches>>

\* client.py:693-695: get_client() puts a new HevoClient, with a new
\* RateLimiter, in the place of one that is no longer referenced
NewClient ==
    /\ \E c \in Clients :
          /\ requests[c] # <<>>
          /\ requests' = [requests EXCEPT ![c] = <<>>]
    /\ UNCHANGED <<pc, response, directive, validation, outcome, result, reply,
                   executeCalls, arg, ret, user_input, history, appended,
                   pipelines_cache, destinations_cache, calls, fetches, now>>

NextLimiter ==
    \/ Tick
    \/ Request
    \/ NewClient

SpecLimiter == InitLimiter /\ [][NextLimiter]_vars

----------------------------------------------------------------------------
(* The handlers of the destructive actions: _delete_pipeline,              *)
(* _delete_model, _reset_model, _delete_user, _remove_oauth_account, with  *)
(* the operations they call.  A params value is a string, or one of the    *)
(* JSON values written "<true>", "<false>", "<0>", "<None>".               *)

DESTRUCTIVE ==
    {"delete_pipeline", "delete_model", "reset_model", "delete_user",
     "remove_oauth_account"}

\* the handlers that take a name in place of the id
NAMED == {"delete_pipeline", "delete_model", "reset_model"}

\* bool(v) of a params value
TruthyValue(v) == v \notin {NoneStr, "", "<false>", "<0>"}

\* a or b
Either(a, b) == IF TruthyValue(a) THEN a ELSE b

\* the parameter holding the id
IdKey(action) == IF action = "delete_user" THEN "user_id" ELSE "id"

\* the first line of the confirmation request
WARNING ==
    [delete_pipeline |-> "Deleting a pipeline is permanent and cannot be undone.",
     delete_model |-> "Deleting a model is permanent and cannot be undone.",
     reset_model |-> "Resetting a model will clear all processed data.",
     delete_user |-> "Removing a user will revoke their access to this team.",
     remove_oauth_account |->
         "Removing an OAuth account may break pipelines that use it."]

\* the failure of _delete_user and _remove_oauth_account without an id
ID_REQUIRED ==
    [delete_user |-> "User ID is required.",
     remove_oauth_account |-> "OAuth account ID is required."]

\* the message asking for the confirmation
confirmation_request(action, params) ==
    LET id == Get(params, IdKey(action))
        name == Get(params, "name")
    IN <<WARNING[action], "To confirm, use: ", action,
         IF action \in NAMED /\ TruthyValue(name) THEN "name" ELSE IdKey(action),
         IF action \in NAMED THEN Either(name, id) ELSE id,
         "confirmed: true">>

\* the API: whether the lookup by name finds the resource, and whether the
\* delete or reset request succeeds
Api(found, ok) == [found |-> found, ok |-> ok]

\* PipelineOperations.delete, ModelOperations.delete and reset,
\* client.delete_user and delete_oauth_account: the requests made and how
\* the operation ends
operation(action, id, name, api) ==
    LET lookup == action \in NAMED /\ ~TruthyValue(id) /\ TruthyValue(name)
        looked == IF lookup THEN <<"lookup">> ELSE <<>>
    IN IF lookup /\ ~api.found
       THEN [calls |-> looked, end |-> Raise("ValueError", <<"not found: ", name>>)]
       ELSE IF action \in NAMED /\ ~lookup /\ ~TruthyValue(id)
       THEN [calls |-> <<>>,
             end |-> Raise("ValueError", <<"Either id or name is required">>)]
       ELSE [calls |-> Append(looked, action),
             end |-> IF api.ok THEN Ret(<<>>)
                     ELSE Raise("APIError", <<"Insufficient permissions">>)]

\* a handler that reads the confirmation after the operation
destructive_unconfirmed(action, params, api) ==
    LET op == operation(action, Get(params, IdKey(action)),
                        IF action \in NAMED THEN Get(params, "name") ELSE NoneStr,
                        api)
    IN [calls |-> op.calls,
        end |-> Ret(ActionResult(FALSE, confirmation_request(action, params), NoData))]

\* the handler of a destructive action: the requests it makes and what it
\* returns or raises
destructive(action, params, api) ==
    LET id == Get(params, IdKey(action))
        name == IF action \in NAMED THEN Get(params, "name") ELSE NoneStr
        confirmed == Get(params, "confirmed")
    IN IF action \notin NAMED /\ ~TruthyValue(id)
       THEN [calls |-> <<>>,
             end |-> Ret(ActionResult(FALSE, <<ID_REQUIRED[action]>>, NoData))]
       ELSE IF ~TruthyValue(confirmed)
       THEN [calls |-> <<>>,
             end |-> Ret(ActionResult(FALSE, confirmation_request(action, params),
                                      NoData))]
       ELSE LET op == operation(action, id, name, api) IN
            [calls |-> op.calls,
             end |-> IF ~op.end.raised
                     THEN Ret(ActionResult(TRUE, <<"done: ", Either(name, id)>>, NoData))
                     ELSE IF action \in NAMED /\ op.end.cls = "ValueError"
                     THEN Ret(ActionResult(FALSE, op.end.msg, NoData))
                     ELSE op.end]

\* the values a parameter takes; "<absent>" leaves the key out
IDS == {"<absent>", "", "7"}
NAMES == {"<absent>", "X"}
CONFIRMATIONS == {"<absent>", NoneStr, "<false>", "<0>", "", "<true>", "false"}

\* the params mapping with the given id, name and confirmed flag
ParamsOf(action, id, name, confirmed) ==
    LET given == [k \in {IdKey(action), "name", "confirmed"} |->
                     IF k = "confirmed" THEN confirmed
                     ELSE IF k = "name" THEN name ELSE id]
        keys == {k \in DOMAIN given : given[k] # "<absent>"}
    IN [k \in keys |-> given[k]]

InitDestructive ==
    /\ pc = "idle"
    /\ response = Unset
    /\ directive = NoDirective
    /\ validation = NoValidation
    /\ outcome = NoOutcome
    /\ result = Unset
    /\ reply = NoneText
    /\ executeCalls = 0
    /\ SessionIdle

\* validate_directive on an execute directive of a destructive action,
\* then the handler called with the directive's params
HandleDestructive ==
    /\ \E action \in DESTRUCTIVE, id \in IDS, name \in NAMES,
          confirmed \in CONFIRMATIONS, found \in BOOLEAN, ok \in BOOLEAN :
          LET params == ParamsOf(action, id, name, confirmed)
              h == destructive(action, params, Api(found, ok))
          IN /\ arg' = [fn |-> action, params |-> params]
             /\ validation' = validate_directive(
                    ActionDirective("execute", action, params, NoneText,
                                    NoneText, <<>>, NoneText))
             /\ ret' = h.end
             /\ calls' = h.calls
    /\ pc' = "done"
    /\ UNCHANGED <<response, directive, outcome, result, reply, executeCalls,
                   user_input, history, appended, pipelines_cache,
                   destinations_cache, fetches, requests, now>>

SpecDestructive == InitDestructive /\ [][HandleDestructive]_vars

----------------------------------------------------------------------------
(* Properties *)

ExecuteParams == ParamsOrEmpty(directive.params)
HasKey(k) == k \in DOMAIN ExecuteParams
HasValue(k) == TruthyStr(Get(ExecuteParams, k))

\* C1: within AgentOrchestrator.process, ExecutorAgent.execute (and with it
\* any handler of the capability layer) runs only for a directive of tag
\* EXECUTE that validate_directive accepted; a CLARIFY, UNSUPPORTED or
\* INFO_ONLY directive is answered without execute, and so is an EXECUTE
\* directive that fails validation, with the reply
\* "I couldn't execute that action: {reason}".
C1_ExecuteOnlyWhenValid ==
    /\ (executeCalls > 0 \/ outcome # NoOutcome \/ pc = "execute") =>
          /\ directive.directive_type = "execute"
          /\ validate_directive(directive).ok
    /\ (pc = "done" /\ directive.directive_type # "execute") =>
          /\ executeCalls = 0
          /\ reply # NoneText
    /\ (pc = "done" /\ directive.directive_type = "execute"
            /\ ~validate_directive(directive).ok) =>
          /\ executeCalls = 0
          /\ reply = P_COULD_NOT_EXECUTE \o validate_directive(directive).error

C1_Witness ==
    /\ pc = "done"
    /\ directive.directive_type = "execute"
    /\ directive.action = "pause_pipeline"
    /\ ~validation.ok
    /\ executeCalls = 0
    /\ reply = P_COULD_NOT_EXECUTE
               \o <<"Pipeline/resource name or ID is required for ", "pause_pipeline">>

\* C2: ExecutorAgent.execute returns an AgentActionResult whatever the
\* directive and whatever the handler does (success, failure, APIError, any
\* other exception): nothing is raised to the caller.
C2_ExecuteNeverRaises ==
    pc = "direct_executed" =>
        /\ Returned(result)
        /\ result.val.success \in BOOLEAN
        /\ DOMAIN result.val = {"success", "action_taken", "result", "message",
                                "error", "suggestions"}

C2_Witness ==
    /\ pc = "direct_executed"
    /\ outcome.kind = "raise"
    /\ outcome.cls = "ConnectionError"
    /\ Returned(result)
    /\ ~result.val.success

\* C3: when llm.chat raises, CoordinatorAgent.process returns an UNSUPPORTED
\* directive whose info_response ends with the text of the exception.
C3_LLMFailureAbsorbed ==
    (pc # "coord" /\ response.raised) =>
        /\ pc = "coord_done"
        /\ directive.directive_type = "unsupported"
        /\ Len(directive.info_response) >= Len(response.msg)
        /\ SubSeq(directive.info_response,
                  Len(directive.info_response) - Len(response.msg) + 1,
                  Len(directive.info_response)) = response.msg

C3_Witness ==
    /\ pc = "coord_done"
    /\ response.raised
    /\ response.msg = T_TIMEOUT
    /\ directive.info_response = P_TROUBLE \o T_TIMEOUT

\* C4: for every text the LLM returns, CoordinatorAgent.process returns one
\* ActionDirective whose tag is one of the four DirectiveType values; it
\* never raises.
C4_CoordinatorTotal ==
    /\ pc # "coord_raised"
    /\ (pc = "coord_done" /\ ~response.raised) =>
          directive.directive_type \in DirectiveType

\* a response whose only JSON names an unknown directive_type
C4_Witness ==
    /\ pc = "coord_done"
    /\ ~response.raised
    /\ Len(response.val) = 1
    /\ response.val[1].kind = "json_fence"
    /\ response.val[1].body.parses
    /\ response.val[1].body.data.directive_type = "bogus"
    /\ directive.directive_type = "clarify"

\* the status/pause/resume/run actions on a pipeline, a model or a workflow
IDENTITY_REQUIRED ==
    {"get_pipeline", "pause_pipeline", "resume_pipeline", "run_pipeline",
     "get_model", "pause_model", "resume_model", "run_model",
     "get_workflow", "run_workflow"}

\* C5: an EXECUTE directive for a status/pause/resume/run action on a
\* pipeline, model or workflow whose params hold neither name nor id is
\* rejected by validate_directive with "Pipeline/resource name or ID is
\* required for <action>", and the Orchestrator never reaches execute for it.
C5_IdentityRequired ==
    (/\ directive.directive_type = "execute"
     /\ directive.action \in IDENTITY_REQUIRED
     /\ ~HasKey("name") /\ ~HasKey("id")) =>
        /\ pc # "execute"
        /\ executeCalls = 0
        /\ pc = "done" =>
              validation = Invalid(<<"Pipeline/resource name or ID is required for ",
                                     directive.action>>)

\* C6: for skip_object, restart_object, pause_object and resume_object,
\* validate_directive accepts an EXECUTE directive exactly when params holds
\* a pipeline identifier (pipeline_id or pipeline_name) and an object_name.
C6_ObjectScoped ==
    (/\ pc = "validate_done"
     /\ directive.directive_type = "execute"
     /\ directive.action \in {"skip_object", "restart_object", "pause_object",
                              "resume_object"}) =>
        (validation.ok <=>
            /\ HasValue("pipeline_id") \/ HasValue("pipeline_name")
            /\ HasValue("object_name"))

C6_Witness ==
    /\ pc = "validate_done"
    /\ directive.directive_type = "execute"
    /\ directive.action = "pause_object"
    /\ HasValue("pipeline_name")
    /\ HasValue("object_name")
    /\ validation.ok

\* C7: an EXECUTE directive whose action is not a key of the Capability
\* Registry is rejected by validate_directive and answered UNKNOWN_ACTION by
\* execute, without a handler being dispatched.
C7_OnlyRegistryActions ==
    (/\ pc = "direct_executed"
     /\ directive.directive_type = "execute"
     /\ TruthyStr(directive.action)
     /\ directive.action \notin CAPABILITIES) =>
        /\ ~validation.ok
        /\ outcome = NoOutcome
        /\ Returned(result)
        /\ ~result.val.success
        /\ result.val.error.code = "UNKNOWN_ACTION"

\* the capability layer failed with message outcome.message: a handler
\* returned a failure or raised the typed APIError
BusinessFailure ==
    \/ outcome.kind = "return" /\ ~outcome.success
    \/ outcome.kind = "raise" /\ outcome.cls = "APIError"

\* C8: on a capability-layer failure with a message, execute returns
\* success=false with the code chosen on the lower-cased message: "not found"
\* -> NOT_FOUND, else "permission" -> PERMISSION_DENIED, else "already" ->
\* ALREADY_EXISTS, else API_ERROR.
C8_ErrorCodePrecedence ==
    (pc = "direct_executed" /\ BusinessFailure) =>
        /\ Returned(result)
        /\ ~result.val.success
        /\ LET m == lower(outcome.message) IN
              result.val.error.code =
                 CASE Contains(m, C_NOT_FOUND) -> "NOT_FOUND"
                   [] ~Contains(m, C_NOT_FOUND) /\ Contains(m, C_PERMISSION) ->
                         "PERMISSION_DENIED"
                   [] ~Contains(m, C_NOT_FOUND) /\ ~Contains(m, C_PERMISSION)
                         /\ Contains(m, C_ALREADY) -> "ALREADY_EXISTS"
                   [] OTHER -> "API_ERROR"

\* the failure "Pipeline 'X' not found"
C8_Witness ==
    /\ pc = "direct_executed"
    /\ outcome.kind = "raise"
    /\ outcome.cls = "APIError"
    /\ outcome.message = F_PIPELINE_X \o C_NOT_FOUND
    /\ result.val.error.code = "NOT_FOUND"

\* C9: when the handler raises an exception that is not the typed APIError,
\* execute returns success=false with code EXECUTION_ERROR and the
\* exception's text as the message.
C9_ExecutionError ==
    (/\ pc = "direct_executed"
     /\ outcome.kind = "raise"
     /\ outcome.cls # "APIError") =>
        /\ Returned(result)
        /\ ~result.val.success
        /\ result.val.error.code = "EXECUTION_ERROR"
        /\ result.val.error.message = outcome.message

ERROR_CODES ==
    {"NOT_FOUND", "ALREADY_EXISTS", "MISSING_PARAM", "INVALID_PARAM",
     "API_ERROR", "PERMISSION_DENIED", "UNKNOWN_ACTION", "MISSING_ACTION",
     "INVALID_DIRECTIVE", "EXECUTION_ERROR"}

\* C10: a result of execute is well-formed: a failure carries one of the ten
\* error codes; a success echoes the directive's action and carries the
\* action's static suggestion list cut to at most three entries, which for
\* pause_pipeline holds "Resume the pipeline when ready".
C10_ResultWellFormed ==
    (pc = "direct_executed" /\ Returned(result)) =>
        LET r == result.val IN
        /\ ~r.success => r.error.code \in ERROR_CODES
        /\ r.success =>
              /\ r.action_taken = directive.action
              /\ Len(r.suggestions) <= 3
              /\ r.suggestions =
                    (IF directive.action \in DOMAIN action_suggestions
                     THEN SubSeq(action_suggestions[directive.action], 1,
                                 Min(3, Len(action_suggestions[directive.action])))
                     ELSE <<>>)
              /\ directive.action = "pause_pipeline" =>
                    \E i \in 1..Len(r.suggestions) :
                        r.suggestions[i] = "Resume the pipeline when ready"

C10_Witness ==
    /\ pc = "direct_executed"
    /\ Returned(result)
    /\ result.val.success
    /\ result.val.action_taken = "pause_pipeline"
    /\ result.val.suggestions =
          <<"Resume the pipeline when ready", "Check pipeline status">>

\* the turn was answered at step 2 of process
AnsweredAtBranch ==
    /\ pc = "done"
    /\ directive.directive_type \in {"clarify", "unsupported", "info_only"}

\* C20 as stated: AgentOrchestrator.process returns, for a CLARIFY directive,
\* the question verbatim (a generic prompt if there is none), and for an
\* UNSUPPORTED or INFO_ONLY directive the info text verbatim with nothing
\* added (the empty string if there is none).
C20_BranchReplyVerbatim ==
    AnsweredAtBranch =>
        reply = CASE directive.directive_type = "clarify" ->
                        IF Truthy(directive.question) THEN directive.question
                        ELSE <<"Could you please provide more details?">>
                  [] OTHER ->
                        IF Truthy(directive.info_response)
                        THEN directive.info_response ELSE <<>>

\* C20 as amended: CLARIFY and INFO_ONLY as stated; for an UNSUPPORTED
\* directive the reply is "I'm sorry, " followed by the info text, or by
\* "that action is not supported." when there is no info text.
C20_BranchReply ==
    AnsweredAtBranch =>
        reply = CASE directive.directive_type = "clarify" ->
                        IF Truthy(directive.question) THEN directive.question
                        ELSE <<"Could you please provide more details?">>
                  [] directive.directive_type = "unsupported" ->
                        IF Truthy(directive.info_response)
                        THEN <<"I'm sorry, ">> \o directive.info_response
                        ELSE <<"I'm sorry, ", "that action is not supported.">>
                  [] OTHER ->
                        IF Truthy(directive.info_response)
                        THEN directive.info_response ELSE <<>>

C20_Witness ==
    /\ pc = "done"
    /\ directive.directive_type = "unsupported"
    /\ directive.info_response = T_WHICH
    /\ reply = <<"I'm sorry, ">> \o T_WHICH
    /\ executeCalls = 0

\* the fields that belong to a tag (agents/schemas.py:34-44)
TagFields(t) ==
    CASE t = "execute" -> {"action", "params", "context"}
      [] t = "clarify" -> {"question", "missing_params"}
      [] OTHER -> {"info_response"}

\* C16: for every ActionDirective d of every tag, from_dict(d.to_dict())
\* equals d on the tag and on the fields that belong to the tag, also when
\* those fields hold empty values (empty params, empty missing_params, empty
\* text).
C16_RoundTrip ==
    pc = "decoded" =>
        /\ Returned(ret)
        /\ ret.val.directive_type = directive.directive_type
        /\ \A f \in TagFields(directive.directive_type) :
              ret.val[f] = directive[f]

\* C17: to_dict emits directive_type and, besides it, only fields that
\* belong to the directive's own tag; no emitted field is null.
C17_OnlyOwnFields ==
    pc \in {"serialized", "decoded"} =>
        /\ DOMAIN arg.data \subseteq
              {"directive_type"} \cup TagFields(directive.directive_type)
        /\ "directive_type" \in DOMAIN arg.data
        /\ \A k \in DOMAIN arg.data \ {"directive_type", "params", "action"} :
              arg.data[k] # NoneText
        /\ "params" \in DOMAIN arg.data => arg.data["params"] # NoneParams
        /\ "action" \in DOMAIN arg.data => arg.data["action"] # NoneStr

\* the normalisation as C14 words it: upper case, and every whitespace
\* character or hyphen turned into an underscore
AsStatedNormalized(name) ==
    [i \in 1..Len(name) |->
        IF name[i] \in WHITESPACE \cup {"-"} THEN "_" ELSE UpperChar(name[i])]

DestinationOnlyMessage(source_type) ==
    source_type
    \o <<" can only be used as a destination, not as a source. ",
         "Hevo does not support ">>
    \o source_type \o <<" as a data source.">>

\* C14 as stated: validate_pipeline_direction normalizes both names (upper
\* case, whitespace and hyphen to underscore) and rejects when either is
\* empty, rejects naming the connector when the source is destination-only,
\* rejects an unknown source, rejects an unknown destination, and accepts
\* otherwise; the result is ok exactly when the normalized source is a known
\* source and the normalized destination is a known destination.
C14_DirectionAsStated ==
    pc = "direction_done" =>
        LET s == AsStatedNormalized(arg.source_type)
            d == AsStatedNormalized(arg.destination_type)
        IN /\ ret.val.ok <=> (s \in SOURCES /\ d \in DESTINATIONS)
           /\ (arg.source_type # <<>> /\ arg.destination_type # <<>>
                 /\ s \in DESTINATION_ONLY) =>
                    ret.val.message = DestinationOnlyMessage(arg.source_type)

\* C14 as amended: the names are normalized by upper-casing, removing the
\* whitespace around the name and turning each blank and each hyphen inside
\* it into an underscore; the decisions are taken in the stated order, so
\* ("SNOWFLAKE","BIGQUERY") is invalid, ("MYSQL","SNOWFLAKE") is valid, and
\* the result is ok exactly when the normalized source is a known source and
\* the normalized destination is a known destination.
C14_Direction ==
    pc = "direction_done" =>
        LET s == normalize_connector_name(arg.source_type)
            d == normalize_connector_name(arg.destination_type)
            empty == arg.source_type = <<>> \/ arg.destination_type = <<>>
        IN /\ ret.val.ok <=> (s \in SOURCES /\ d \in DESTINATIONS)
           /\ empty =>
                 ret.val = Direction(FALSE,
                              <<"Both source and destination types are required.">>)
           /\ (~empty /\ s \in DESTINATION_ONLY) =>
                 ret.val = Direction(FALSE, DestinationOnlyMessage(arg.source_type))
           /\ (~empty /\ s \notin DESTINATION_ONLY /\ s \notin SOURCES) =>
                 /\ ~ret.val.ok
                 /\ SubSeq(ret.val.message, 1, Len(arg.source_type)) = arg.source_type
                 /\ ret.val.message[Len(arg.source_type) + 1] =
                       " is not a supported source type. "
           /\ (~empty /\ s \in SOURCES /\ d \notin DESTINATIONS) =>
                 /\ ~ret.val.ok
                 /\ ret.val.message[Len(arg.destination_type) + 1] =
                       " is not a supported destination type. "
           /\ (arg.source_type = W_SNOWFLAKE /\ arg.destination_type = W_BIGQUERY) =>
                 ~ret.val.ok
           /\ (arg.source_type = W_MYSQL /\ arg.destination_type = W_SNOWFLAKE) =>
                 ret.val.ok
           /\ (arg.source_type = W_Google \o <<"-">> \o W_ads
                 /\ arg.destination_type = <<" ">> \o W_azure \o <<" ">> \o W_Synapse
                                           \o <<" ">>) =>
                 ret.val.ok

\* a padded, mixed-case, hyphenated source and a two-word destination
C14_Witness ==
    /\ pc = "direction_done"
    /\ arg.source_type = <<" ">> \o W_Google \o <<"-">> \o W_ads \o <<" ">>
    /\ arg.destination_type = W_azure \o <<" ">> \o W_Synapse
    /\ ret.val.ok

\* the required parameters of a registered action, in declaration order
RequiredOf(action_name) ==
    LET required(param) == param.required IN
    SelectSeq(PARAMETERS[action_name], required)

\* the substitution rule as C11 words it: the action declares both a "name"
\* and an "id" parameter, and the other one of the pair was supplied
PairSupplied(action_name, param, provided) ==
    /\ {"name", "id"} \subseteq Declared(action_name)
    /\ \/ param.name = "name" /\ "id" \in DOMAIN provided
       \/ param.name = "id" /\ "name" \in DOMAIN provided

\* what C11 says missing_required returns
StatedMissing(action_name, provided) ==
    IF action_name \notin CAPABILITIES THEN <<>>
    ELSE LET missing(param) ==
                 /\ param.name \notin DOMAIN provided
                 /\ ~PairSupplied(action_name, param, provided)
         IN SelectSeq(RequiredOf(action_name), missing)

Names(parameters) == {parameters[i].name : i \in 1..Len(parameters)}

\* C11: get_missing_prerequisites(action, provided) returns exactly the
\* required parameters of the action that are not in provided, except that
\* for a pair of parameters "name" and "id" of the same action either one
\* supplied satisfies both; it returns the empty list for an unknown action;
\* and validate_action(name, {}) reports exactly the required parameters of
\* a registered action (less a name/id pair that is required as a pair).
C11_MissingRequired ==
    /\ pc = "missing_done" =>
          ret.val = StatedMissing(arg.action_name, arg.params)
    /\ (pc = "validate_action_done" /\ arg.action_name \in CAPABILITIES
          /\ arg.params = EmptyMap) =>
          Names(ret.val.missing) =
             Names(RequiredOf(arg.action_name))
             \ (IF {"name", "id"} \subseteq Names(RequiredOf(arg.action_name))
                THEN {"name", "id"} ELSE {})

\* whether the special check of create_pipeline rejects these params
DirectionRejects(action_name, params) ==
    /\ action_name = "create_pipeline"
    /\ GetText(params, "source_type") # <<>>
    /\ GetText(params, "destination_type") # <<>>
    /\ ~validate_pipeline_direction(GetText(params, "source_type"),
                                    GetText(params, "destination_type")).ok

\* C12: validate_action puts every (action_name, params) into exactly one
\* class, tested in this order: unknown action -> invalid, a message, no
\* missing-list; known but not implemented -> invalid, the "coming soon"
\* message, no missing-list; a required parameter missing -> invalid, no
\* message, a non-empty missing-list; otherwise valid with no message and no
\* missing-list, unless the direction check of create_pipeline rejects.
C12_ValidateActionClasses ==
    pc = "validate_action_done" =>
        LET a == arg.action_name
            v == ret.val
        IN /\ Returned(ret)
           /\ a \notin CAPABILITIES =>
                 /\ ~v.is_valid
                 /\ v.error_message # NoneText /\ v.error_message # <<>>
                 /\ v.missing = <<>>
           /\ (a \in CAPABILITIES /\ ~IMPLEMENTED[a]) =>
                 /\ ~v.is_valid
                 /\ v.error_message[Len(v.error_message)] =
                       "This feature is coming soon!"
                 /\ v.missing = <<>>
           /\ (a \in CAPABILITIES /\ IMPLEMENTED[a]
                 /\ StatedMissing(a, arg.params) # <<>>) =>
                 /\ ~v.is_valid
                 /\ v.error_message = NoneText
                 /\ v.missing # <<>>
           /\ (a \in CAPABILITIES /\ IMPLEMENTED[a]
                 /\ StatedMissing(a, arg.params) = <<>>
                 /\ ~DirectionRejects(a, arg.params)) =>
                 v = Validation(TRUE, NoneText, <<>>)

\* C13 as stated: for create_pipeline, whenever params supplies both
\* source_type and destination_type and the connector validator rejects the
\* pair, validate_action returns invalid with the connector validator's
\* message.
C13_DirectionAlwaysReported ==
    (pc = "validate_action_done" /\ DirectionRejects(arg.action_name, arg.params)) =>
        /\ ~ret.val.is_valid
        /\ ret.val.error_message =
              validate_pipeline_direction(arg.params["source_type"],
                                          arg.params["destination_type"]).message

\* C13 as amended: for create_pipeline, whenever params holds every required
\* parameter (source_type, source_config, destination_id) and a non-empty
\* source_type and destination_type, and the connector validator rejects the
\* pair, validate_action returns invalid with the connector validator's
\* message and an empty missing-list; SNOWFLAKE -> any destination is
\* rejected with the destination-only explanation.
C13_DirectionReported ==
    (/\ pc = "validate_action_done"
     /\ DirectionRejects(arg.action_name, arg.params)
     /\ {"source_type", "source_config", "destination_id"}
           \subseteq DOMAIN arg.params) =>
        /\ ret.val =
              Validation(FALSE,
                 validate_pipeline_direction(arg.params["source_type"],
                                             arg.params["destination_type"]).message,
                 <<>>)
        /\ arg.params["source_type"] = W_SNOWFLAKE =>
              ret.val.error_message = DestinationOnlyMessage(W_SNOWFLAKE)

C13_Witness ==
    /\ pc = "validate_action_done"
    /\ arg.action_name = "create_pipeline"
    /\ DOMAIN arg.params = {"source_type", "source_config", "destination_id",
                            "destination_type"}
    /\ arg.params["source_type"] = W_SNOWFLAKE
    /\ arg.params["destination_type"] = W_BIGQUERY
    /\ ~ret.val.is_valid
    /\ ret.val.error_message = DestinationOnlyMessage(W_SNOWFLAKE)

\* the patterns that match the case-folded query
Matching(query) ==
    {k \in 1..Len(UNSUPPORTED_PATTERNS) :
        re_search(UNSUPPORTED_PATTERNS[k].pattern, lower(query))}

\* C15: check_unsupported returns the message of the first pattern of the
\* ordered list that matches the case-folded query, and absent when none
\* matches; "please delete my destination" yields a non-empty message and
\* "list my pipelines" yields absent.
C15_FirstMatchWins ==
    pc = "query_done" =>
        /\ LET matching == Matching(arg.query) IN
              /\ matching = {} => ret.val = NoneText
              /\ matching # {} =>
                    \E k \in matching :
                       /\ \A j \in matching : k <= j
                       /\ ret.val = UNSUPPORTED_PATTERNS[k].message
        /\ arg.query = Q_please \o <<" ">> \o Q_delete_my_destination =>
              /\ ret.val # NoneText
              /\ ret.val # <<>>
              /\ ret.val = UNSUPPORTED_PATTERNS[1].message
        /\ arg.query = Q_list_my_pipelines => ret.val = NoneText
        /\ arg.query \in {Q_undelete_destination, Q_airplane,
                          Q_snowflake_far_source} => ret.val = NoneText
        /\ arg.query = Q_REMOVE_destination =>
              ret.val = UNSUPPORTED_PATTERNS[1].message
        /\ arg.query = Q_planning => ret.val = UNSUPPORTED_PATTERNS[3].message

\* "from snowflake as source" matches the fifth and the sixth pattern
C15_Witness ==
    /\ pc = "query_done"
    /\ arg.query = Q_from_snowflake \o <<" ">> \o Q_as_source
    /\ Matching(arg.query) = {5, 6}
    /\ ret.val = UNSUPPORTED_PATTERNS[5].message

\* C18: after every turn of the chat loop the history holds at most 20
\* entries and equals the most recent entries ever appended, in their
\* original order (the oldest entries are the ones dropped).
C18_BoundedFIFO ==
    /\ Len(history) <= HISTORY_LIMIT
    /\ history = LastN(appended, HISTORY_LIMIT)

\* C18's case: more than 20 entries were appended, the oldest are gone
C18_Witness ==
    /\ pc = "prompt"
    /\ Len(appended) > HISTORY_LIMIT
    /\ Len(history) = HISTORY_LIMIT
    /\ history # SubSeq(appended, 1, HISTORY_LIMIT)

\* C19: a turn whose processing fails part-way (the LLM call raises,
\* AgentOrchestrator() raises, the user interrupts) leaves the history
\* exactly as it was before that turn.
C19_FailedTurnKeepsHistory ==
    [][(pc \in {"processing", "directed"} /\ (response.raised \/ response'.raised))
          => history' = history]_vars

\* C22 as stated: when the capability layer fails, error.message of the
\* failure result equals the message of the error the capability layer
\* raised or returned, with no prefix or rewriting.
C22_MessageVerbatim ==
    (pc = "direct_executed" /\ BusinessFailure) =>
        /\ Returned(result)
        /\ ~result.val.success
        /\ result.val.error.message = outcome.message

\* C22 as amended: error.message is the handler's own failure message
\* unchanged when the handler returned the failure, and "API error: "
\* followed by the error's message when the handler raised APIError.
C22_Message ==
    (pc = "direct_executed" /\ BusinessFailure) =>
        /\ Returned(result)
        /\ ~result.val.success
        /\ result.val.error.message =
              (IF outcome.kind = "raise" THEN P_API_ERROR \o outcome.message
               ELSE outcome.message)

\* APIError("Pipeline 'X' not found") reaches the result with the prefix
C22_Witness ==
    /\ pc = "direct_executed"
    /\ outcome.kind = "raise"
    /\ outcome.cls = "APIError"
    /\ outcome.message = F_PIPELINE_X \o C_NOT_FOUND
    /\ Returned(result)
    /\ result.val.error.message = P_API_ERROR \o F_PIPELINE_X \o C_NOT_FOUND

\* the mismatch of a directive that execute re-checks, "" when there is none
MismatchCode(d) ==
    IF d.directive_type # "execute" THEN "INVALID_DIRECTIVE"
    ELSE IF d.action = NoneStr \/ d.action = "" THEN "MISSING_ACTION"
    ELSE IF d.action \notin REGISTERED_ACTIONS THEN "UNKNOWN_ACTION"
    ELSE ""

\* C23: independently of validate_directive, execute returns failure
\* INVALID_DIRECTIVE when the tag is not EXECUTE, MISSING_ACTION when the
\* action is absent or empty, UNKNOWN_ACTION when the action is not
\* registered, each time without dispatching to the capability layer; and
\* validate_directive returns ok=false for each of those directives.
C23_RedundantChecks ==
    (pc = "direct_executed" /\ MismatchCode(directive) # "") =>
        /\ Returned(result)
        /\ ~result.val.success
        /\ result.val.error.code = MismatchCode(directive)
        /\ outcome = NoOutcome
        /\ ~validation.ok

\* the three mismatches, each seen after execute
C23_WitnessOf(code) ==
    /\ pc = "direct_executed"
    /\ MismatchCode(directive) = code
    /\ result.val.error.code = code
    /\ ~validation.ok

C23_Witness == C23_WitnessOf("UNKNOWN_ACTION")

C23_WitnessTag == C23_WitnessOf("INVALID_DIRECTIVE")

C23_WitnessMissing == C23_WitnessOf("MISSING_ACTION")

\* C24: on capability-layer success the result payload is extracted by
\* shape: every list (an empty list too) becomes {items: the list, count:
\* its length}, a record becomes its field mapping, a mapping is passed
\* through unchanged.
C24_PayloadByShape ==
    (/\ pc = "direct_executed"
     /\ outcome.kind = "return"
     /\ outcome.success) =>
        /\ Returned(result)
        /\ result.val.success
        /\ outcome.data.shape = "list" =>
              result.val.result = [items |-> outcome.data.items,
                                   count |-> Len(outcome.data.items)]
        /\ outcome.data.shape \in {"object", "dict"} =>
              result.val.result = outcome.data.fields

\* the three kinds of candidate block, in the order of the spec
CANDIDATE_ORDER == <<"json_fence", "fence", "inline">>

\* segment seg holds a candidate of kind k
IsCandidate(k, seg) ==
    CASE k = "json_fence" -> seg.kind = "json_fence"
      [] k = "fence" -> seg.kind = "fence"
      [] k = "inline" ->
            \/ seg.kind = "inline"
            \/ /\ seg.kind \in {"json_fence", "fence"}
               /\ seg.body.flat
               /\ seg.body.data.directive_type # AbsentStr

\* the leftmost candidate of kind CANDIDATE_ORDER[n], 0 when there is none
Leftmost(n, segs) ==
    LET at == {i \in 1..Len(segs) : IsCandidate(CANDIDATE_ORDER[n], segs[i])}
    IN IF at = {} THEN 0 ELSE CHOOSE i \in at : \A j \in at : i <= j

\* the directive a decoded object stands for, the tag defaulting to EXECUTE
Decoded(data) ==
    ActionDirective(
        IF data.directive_type = AbsentStr THEN "execute" ELSE data.directive_type,
        IF data.action = AbsentStr THEN NoneStr ELSE data.action,
        IF data.params = AbsentParams THEN EmptyMap ELSE data.params,
        data.context,
        data.question,
        IF data.missing_params = AbsentList THEN <<>> ELSE data.missing_params,
        data.info_response)

\* the places in CANDIDATE_ORDER whose candidate is valid JSON
ParsingCandidates(segs) ==
    {n \in 1..3 : Leftmost(n, segs) # 0 /\ segs[Leftmost(n, segs)].body.parses}

\* ... and whose directive_type, when present, is one of the four tags
DecodingCandidates(segs) ==
    {n \in ParsingCandidates(segs) :
        Decoded(segs[Leftmost(n, segs)].body.data).directive_type \in DirectiveType}

\* C25 as stated: the candidates are examined in the order json fence, any
\* fence, inline object; the first that parses as valid JSON is decoded
\* (tag EXECUTE when directive_type is absent) and returned.
C25_FirstParsingWins ==
    (pc = "coord_done" /\ ~response.raised) =>
        LET segs == response.val
            ns == ParsingCandidates(segs)
        IN ns # {} =>
              LET n == CHOOSE m \in ns : \A k \in ns : m <= k
              IN directive = Decoded(segs[Leftmost(n, segs)].body.data)

\* C25 as amended: the first candidate that parses as valid JSON and whose
\* directive_type is absent or one of the four tags is decoded (tag EXECUTE
\* when directive_type is absent) and returned.
C25_FirstDecodingWins ==
    (pc = "coord_done" /\ ~response.raised) =>
        LET segs == response.val
            ns == DecodingCandidates(segs)
        IN ns # {} =>
              LET n == CHOOSE m \in ns : \A k \in ns : m <= k
              IN directive = Decoded(segs[Leftmost(n, segs)].body.data)

\* an untagged fence holding an INFO_ONLY object, then a json fence holding
\* a CLARIFY object: the json fence wins
C25_Witness ==
    /\ pc = "coord_done"
    /\ ~response.raised
    /\ Len(response.val) = 2
    /\ response.val[1].kind = "fence"
    /\ response.val[1].body.parses
    /\ response.val[1].body.data.directive_type = "info_only"
    /\ response.val[2].kind = "json_fence"
    /\ response.val[2].body.parses
    /\ response.val[2].body.data.directive_type = "clarify"
    /\ directive.directive_type = "clarify"

\* no block of the response parses as valid JSON
NoBlockParses(segs) ==
    \A i \in 1..Len(segs) : segs[i].kind = "prose" \/ ~segs[i].body.parses

HasCue(text, cues) == \E c \in cues : Contains(lower(text), c)

\* C26: when no block of the response parses as valid JSON, a response
\* with a clarification cue yields CLARIFY whose question is the raw text
\* (refusal cues present or not); else one with a refusal cue yields
\* UNSUPPORTED; else INFO_ONLY whose info_response is the raw text.  A
\* response containing "could you clarify" yields CLARIFY with the raw text.
C26_HeuristicPrecedence ==
    (pc = "coord_done" /\ ~response.raised /\ NoBlockParses(response.val)) =>
        LET text == TextOf(response.val) IN
        /\ IF HasCue(text, CLARIFY_CUES)
           THEN /\ directive.directive_type = "clarify"
                /\ directive.question = text
           ELSE IF HasCue(text, UNSUPPORTED_CUES)
           THEN directive.directive_type = "unsupported"
           ELSE /\ directive.directive_type = "info_only"
                /\ directive.info_response = text
        /\ Contains(lower(text), lower(T_COULD_YOU_CLARIFY)) =>
              /\ directive.directive_type = "clarify"
              /\ directive.question = text

\* both kinds of cue in one response: "Sorry" and "Could you clarify"
C26_Witness ==
    /\ pc = "coord_done"
    /\ ~response.raised
    /\ response.val = <<Prose(T_SORRY), Prose(T_COULD_YOU_CLARIFY)>>
    /\ directive.directive_type = "clarify"
    /\ directive.question = T_SORRY \o T_COULD_YOU_CLARIFY

----------------------------------------------------------------------------
(* One process call: the calls it makes *)

LIST_CALLS == {"list_pipelines", "list_destinations"}

\* the positions in the log of the calls of the kinds in ks
CallsOf(ks) == {i \in DOMAIN calls : calls[i].kind \in ks}

LLMCalls == CallsOf({"llm.chat"})

\* the calls into the API capability layer: everything but the LLM's
APICalls == DOMAIN calls \ LLMCalls

\* the call the Executor makes for the directive
DispatchCalls == APICalls \ CallsOf(LIST_CALLS)

\* C21 as stated: a process call makes exactly one LLM round-trip and at most
\* one call into the API capability layer, and that one after the LLM call
\* has returned
C21_OneLLMOneAPICall ==
    /\ Cardinality(LLMCalls) <= 1
    /\ pc = "done" => Cardinality(LLMCalls) = 1
    /\ Cardinality(APICalls) <= 1
    /\ \A i \in APICalls : \E j \in LLMCalls : j < i

\* C21: a process call makes exactly one LLM round-trip and at most one
\* Executor dispatch into the API capability layer, the dispatch after the
\* LLM call has returned; before the LLM call it makes at most one list call
\* for each name list, and it repeats no call, failed or not
C21_OneLLMOneDispatch ==
    /\ Cardinality(LLMCalls) <= 1
    /\ pc = "done" => Cardinality(LLMCalls) = 1
    /\ Cardinality(DispatchCalls) <= 1
    /\ \A i \in DispatchCalls : \E j \in LLMCalls : j < i
    /\ \A k \in LIST_CALLS : Cardinality(CallsOf({k})) <= 1
    /\ \A i \in CallsOf(LIST_CALLS) : \A j \in LLMCalls : i < j

\* a process call whose two list calls, LLM call and dispatch all happened,
\* the dispatch failing
C21_Witness ==
    /\ pc = "done"
    /\ Len(calls) = 4
    /\ \E i \in DispatchCalls : ~calls[i].ok

----------------------------------------------------------------------------
(* The name lists across process calls *)

\* C27: between two clear_cache() calls each name list is fetched from the
\* API at most once, however many process calls the session makes
C27_FetchedOncePerSession ==
    /\ fetches.pipelines <= 1
    /\ fetches.destinations <= 1

\* the step of one fetcher: the cache before and after, the list call's kind
FetchStep(at, cache, cache_after, kind) ==
    pc = at =>
        /\ pc' # at
        /\ IF cache # NoneList
           THEN calls' = calls /\ cache_after = cache
           ELSE /\ Len(calls') = Len(calls) + 1
                /\ calls'[Len(calls')].kind = kind
                /\ calls'[Len(calls')].ok <=> cache_after # NoneList

\* C30: a fetcher that finds its cache unpopulated makes the list call; a
\* failed call leaves the cache unpopulated and the process call goes on, a
\* successful one populates it, with an empty list too; a fetcher that finds
\* the cache populated makes no call; and every process call ends in a reply
C30_FailedFetchNotCached ==
    [][/\ FetchStep("fetch_pipelines", pipelines_cache, pipelines_cache',
                    "list_pipelines")
       /\ FetchStep("fetch_destinations", destinations_cache,
                    destinations_cache', "list_destinations")
       /\ (pc = "respond" => pc' = "done" /\ reply' # NoneText)
       /\ (pc \in {"fetch_pipelines", "fetch_destinations", "coordinate"}
              => pc' \notin {"idle", "done"})]_vars

\* a second process call on the same object that fetched the pipeline list
\* again, failed again and went on, while the destination list, fetched as
\* an empty list, stayed cached
C30_Witness ==
    /\ pc = "done"
    /\ arg.caller = "library"
    /\ arg.turn >= 2
    /\ reply # NoneText
    /\ pipelines_cache = NoneList
    /\ destinations_cache = <<>>
    /\ fetches.destinations = 1
    /\ \E i \in DOMAIN calls : calls[i] = Call("list_pipelines", FALSE)
    /\ CallsOf({"list_destinations"}) = {}

----------------------------------------------------------------------------
(* The rate limiter *)

\* the requests of the send log that the clients in cs sent in the minute
\* ending with request i
SentInMinute(cs, i) ==
    {j \in DOMAIN calls : /\ calls[j].client \in cs
                          /\ calls[i].at - calls[j].at < MINUTE
                          /\ calls[j].at <= calls[i].at}

\* one RateLimiter: of the requests it recorded, the last one and those in
\* the minute before it are no more than the quota
QuotaPerLimiter ==
    \A c \in Clients :
        LET r == requests[c] IN
        Cardinality({j \in DOMAIN r : r[Len(r)] - r[j] < MINUTE})
            <= requests_per_minute

\* a request that slept before it was sent
SleptBeforeSend ==
    /\ IsSet(ret)
    /\ arg.fn = "_request"
    /\ ret.val > 0

\* C28: every request passes through the rate limiter, which delays it
\* until fewer than requests_per_minute requests were sent in the last
\* minute, so that no minute holds more than requests_per_minute requests;
\* requests are sent in the order they were made
C28_QuotaPerMinute ==
    /\ \A i \in DOMAIN calls :
          Cardinality(SentInMinute(Clients, i)) <= requests_per_minute
    /\ \A i, j \in DOMAIN calls : i < j => calls[i].at <= calls[j].at

----------------------------------------------------------------------------
(* The destructive handlers *)

\* the handler was called without a truthy confirmed flag
Unconfirmed == ~TruthyValue(Get(arg.params, "confirmed"))

\* the handler's result asks for the confirmation
AsksConfirmation ==
    /\ ~ret.raised
    /\ ~ret.val.success
    /\ ret.val.message = confirmation_request(arg.fn, arg.params)

\* C29 as stated: a destructive handler called without a truthy confirmed
\* flag makes no API call and returns a failure asking for confirmation,
\* whatever the other parameters are; it makes the delete or reset request
\* only with the flag
C29_ConfirmedOrAsked ==
    pc = "done" =>
        /\ (\E i \in DOMAIN calls : calls[i] = arg.fn) => ~Unconfirmed
        /\ Unconfirmed => calls = <<>> /\ AsksConfirmation

\* C29: a destructive handler called without a truthy confirmed flag makes
\* no API call and returns a failure: for delete_user and
\* remove_oauth_account without an id the failure that the id is required,
\* otherwise the failure asking for confirmation; it makes the delete or
\* reset request only with the flag; validate_directive accepts the
\* directive either way
C29_ConfirmedOrRefused ==
    pc = "done" =>
        /\ validation.ok
        /\ (\E i \in DOMAIN calls : calls[i] = arg.fn) => ~Unconfirmed
        /\ Unconfirmed =>
              /\ calls = <<>>
              /\ ~ret.raised
              /\ ~ret.val.success
              /\ IF arg.fn \notin NAMED /\ ~TruthyValue(Get(arg.params, IdKey(arg.fn)))
                 THEN ret.val.message = <<ID_REQUIRED[arg.fn]>>
                 ELSE AsksConfirmation

\* an accepted delete_pipeline directive naming the pipeline, its confirmed
\* flag false: nothing requested, the confirmation asked for
C29_Witness ==
    /\ pc = "done"
    /\ arg.fn = "delete_pipeline"
    /\ validation.ok
    /\ Get(arg.params, "name") = "X"
    /\ Get(arg.params, "confirmed") = "<false>"
    /\ calls = <<>>
    /\ AsksConfirmation

=============================================================================
